---- MODULE Spec2Model ----
(***************************************************************************)
(* Model of the fynn core: the JSON extractor of AIService                 *)
(* (cleanJsonResponse / extractBalancedJson) and the commit impact scorer  *)
(* of GitService (analyzeCommitImpact).                                    *)
(*                                                                         *)
(* Texts are sequences of one-character strings.  Indices i, startIdx,     *)
(* firstBrace, firstBracket keep the 0-based values of the TypeScript      *)
(* code; the character at index i of s is s[i + 1].                        *)
(***************************************************************************)
EXTENDS Integers, Sequences, FiniteSets, TLC

VARIABLES
    input,        \* the text handed to cleanJsonResponse, as prefix / object / suffix
    pc,           \* position inside cleanJsonResponse: "start", "scan", "done"
    cleaned,      \* local cleaned of cleanJsonResponse
    startIdx,     \* parameter startIdx of extractBalancedJson
    openChar,     \* parameter openChar
    closeChar,    \* parameter closeChar
    i,            \* loop index of extractBalancedJson
    scan,         \* [depth, inString, escapeNext] of extractBalancedJson
    extracted,    \* value returned by extractBalancedJson (string | null)
    result,       \* value returned by cleanJsonResponse
    diffs,        \* what getLatestCommitDiff returns to analyzeCommitImpact
    spc,          \* position inside analyzeCommitImpact
    k,            \* number of diffs the for-loop has processed
    acc,          \* [totalChanges, criticalFiles, complexityFactors]
    impact,       \* value returned by analyzeCommitImpact (CommitImpact | null)
    log,          \* what git.log returns to generateDeveloperReport
    rpc,          \* position inside generateDeveloperReport
    authorStats,  \* the Map authorStats, in insertion order
    processedCommits, \* local processedCommits
    fileFrequency, \* the Map fileFrequency of the author whose report is next
    scanned,      \* number of commits the inner for loop has processed
    tops,         \* per pushed report, in the order of authorStats, the sorted and
                  \* sliced entries of its hotspots
    reports,      \* local reports
    returned,     \* value returned by generateDeveloperReport
    shape,        \* which shape is normalized: "commit-suggestion" or "test-suite"
    npc,          \* position inside the normalizer
    given,        \* the parsed suggestion as the caller passed it
    suggestion,   \* the suggestion object validateSuggestion works on
    validated,    \* outcome of validateSuggestion
    response,     \* outcome of ai.generateTestCases and JSON.parse
    testSuite,    \* value returned by generateTestSuiteForFile (TestSuite | null)
    logged,       \* message generateTestSuiteForFile wrote with console.error
    options,      \* the options commander hands to the main action
    keyEnv,       \* whether process.env.OPENAI_API_KEY is set
    fynnConfig,   \* state of the file ~/.fynn/config.json
    yourcliConfig, \* state of the file ~/.yourcli/config.json
    cpc,          \* position of the CLI process
    gitCalls,     \* the changing GitService methods the main action has invoked
    ended         \* how the CLI run ended, "no" while it runs

evars == <<input, pc, cleaned, startIdx, openChar, closeChar, i, scan, extracted, result>>
svars == <<diffs, spc, k, acc, impact>>
avars ==
    <<log, rpc, authorStats, processedCommits, fileFrequency, scanned, tops, reports, returned>>
nvars == <<shape, npc, given, suggestion, validated, response, testSuite, logged>>
cvars == <<options, keyEnv, fynnConfig, yourcliConfig, cpc, gitCalls, ended>>
vars == <<input, pc, cleaned, startIdx, openChar, closeChar, i, scan, extracted, result,
          diffs, spc, k, acc, impact,
          log, rpc, authorStats, processedCommits, fileFrequency, scanned, tops, reports,
          returned,
          shape, npc, given, suggestion, validated, response, testSuite, logged,
          options, keyEnv, fynnConfig, yourcliConfig, cpc, gitCalls, ended>>

(***************************************************************************)
(* Bounds of the input space.                                              *)
(***************************************************************************)
MaxLen == 4
MaxBody == 2
MaxDiffs == 3
MaxPad == 8
MaxCommits == 3
MaxDescription == 60

(***************************************************************************)
(* Values: string | null.                                                  *)
(***************************************************************************)
Null == [isNull |-> TRUE, text |-> <<>>]
Str(s) == [isNull |-> FALSE, text |-> s]

(***************************************************************************)
(* String primitives used by cleanJsonResponse.                            *)
(***************************************************************************)
\* the characters String.prototype.trim removes and the class \s matches:
\* WhiteSpace and LineTerminator of ECMAScript.  A code unit that a TLA+
\* string cannot hold is written by its escape sequence, as one character.
WS ==
    {" ", "\n", "\t", "\r", "\f", "\\u000b", "\\u00a0", "\\u1680",
     "\\u2000", "\\u2001", "\\u2002", "\\u2003", "\\u2004", "\\u2005", "\\u2006",
     "\\u2007", "\\u2008", "\\u2009", "\\u200a", "\\u2028", "\\u2029", "\\u202f",
     "\\u205f", "\\u3000", "\\ufeff"}

RECURSIVE TrimStart(_)
TrimStart(s) == IF s # <<>> /\ Head(s) \in WS THEN TrimStart(Tail(s)) ELSE s

RECURSIVE TrimEnd(_)
TrimEnd(s) ==
    IF s # <<>> /\ s[Len(s)] \in WS THEN TrimEnd(SubSeq(s, 1, Len(s) - 1)) ELSE s

Trim(s) == TrimEnd(TrimStart(s))

StartsWith(s, p) == Len(s) >= Len(p) /\ SubSeq(s, 1, Len(p)) = p

EndsWith(s, p) == Len(s) >= Len(p) /\ SubSeq(s, Len(s) - Len(p) + 1, Len(s)) = p

\* s.substring(from, to) with 0 <= from <= to <= s.length
Substring(s, from, to) == SubSeq(s, from + 1, to)

\* s.indexOf(c): 0-based index of the first occurrence, -1 when there is none
IndexOf(s, c) ==
    IF \E n \in 1..Len(s) : s[n] = c
    THEN (CHOOSE n \in 1..Len(s) : s[n] = c /\ \A m \in 1..(n - 1) : s[m] # c) - 1
    ELSE -1

\* the grave accent U+0060 of a markdown fence; a TLA+ string cannot hold
\* that character, so it is written as the character below
Tick == "^"

Fence == <<Tick, Tick, Tick>>
FenceJson == <<Tick, Tick, Tick, "j", "s", "o", "n">>

\* cleaned.replace(/^FENCEjson\s*/, "") under startsWith(FENCEjson)
StripFenceJson(s) ==
    IF StartsWith(s, FenceJson) THEN TrimStart(SubSeq(s, Len(FenceJson) + 1, Len(s))) ELSE s

\* cleaned.replace(/^FENCE\s*/, "") under startsWith(FENCE)
StripFence(s) ==
    IF StartsWith(s, Fence) THEN TrimStart(SubSeq(s, Len(Fence) + 1, Len(s))) ELSE s

\* cleaned.replace(/\s*FENCE$/, "") under endsWith(FENCE)
StripTrailingFence(s) ==
    IF EndsWith(s, Fence) THEN TrimEnd(SubSeq(s, 1, Len(s) - Len(Fence))) ELSE s

\* the value of cleaned when the bracket search begins
CleanFences(text) == Trim(StripTrailingFence(StripFence(StripFenceJson(Trim(text)))))

(***************************************************************************)
(* One iteration of the loop of extractBalancedJson on character ch.       *)
(* hit is TRUE when the iteration executes the return statement.           *)
(***************************************************************************)
ScanCharNoString(st, ch, open, close) ==
    IF st.escapeNext
    THEN [depth |-> st.depth, inString |-> st.inString, escapeNext |-> FALSE, hit |-> FALSE]
    ELSE IF ch = "\\"
    THEN [depth |-> st.depth, inString |-> st.inString, escapeNext |-> TRUE, hit |-> FALSE]
    ELSE IF ch = "\""
    THEN [depth |-> st.depth, inString |-> ~st.inString, escapeNext |-> FALSE, hit |-> FALSE]
    ELSE IF ch = open
    THEN [depth |-> st.depth + 1, inString |-> st.inString, escapeNext |-> FALSE, hit |-> FALSE]
    ELSE IF ch = close
    THEN [depth |-> st.depth - 1, inString |-> st.inString, escapeNext |-> FALSE,
          hit |-> (st.depth - 1 = 0)]
    ELSE [depth |-> st.depth, inString |-> st.inString, escapeNext |-> FALSE, hit |-> FALSE]

ScanCharEscapeChains(st, ch, open, close) ==
    IF st.escapeNext
    THEN [depth |-> st.depth, inString |-> st.inString, escapeNext |-> (ch = "\\"),
          hit |-> FALSE]
    ELSE IF ch = "\\"
    THEN [depth |-> st.depth, inString |-> st.inString, escapeNext |-> TRUE, hit |-> FALSE]
    ELSE IF ch = "\""
    THEN [depth |-> st.depth, inString |-> ~st.inString, escapeNext |-> FALSE, hit |-> FALSE]
    ELSE IF ~st.inString /\ ch = open
    THEN [depth |-> st.depth + 1, inString |-> st.inString, escapeNext |-> FALSE, hit |-> FALSE]
    ELSE IF ~st.inString /\ ch = close
    THEN [depth |-> st.depth - 1, inString |-> st.inString, escapeNext |-> FALSE,
          hit |-> (st.depth - 1 = 0)]
    ELSE [depth |-> st.depth, inString |-> st.inString, escapeNext |-> FALSE, hit |-> FALSE]

ScanCharLateReturn(st, ch, open, close) ==
    IF st.escapeNext
    THEN [depth |-> st.depth, inString |-> st.inString, escapeNext |-> FALSE, hit |-> FALSE]
    ELSE IF ch = "\\"
    THEN [depth |-> st.depth, inString |-> st.inString, escapeNext |-> TRUE, hit |-> FALSE]
    ELSE IF ch = "\""
    THEN [depth |-> st.depth, inString |-> ~st.inString, escapeNext |-> FALSE, hit |-> FALSE]
    ELSE IF ~st.inString /\ ch = open
    THEN [depth |-> st.depth + 1, inString |-> st.inString, escapeNext |-> FALSE, hit |-> FALSE]
    ELSE IF ~st.inString /\ ch = close
    THEN [depth |-> st.depth - 1, inString |-> st.inString, escapeNext |-> FALSE,
          hit |-> (st.depth - 1 < 0)]
    ELSE [depth |-> st.depth, inString |-> st.inString, escapeNext |-> FALSE, hit |-> FALSE]

ScanChar(st, ch, open, close) ==
    IF st.escapeNext
    THEN [depth |-> st.depth, inString |-> st.inString, escapeNext |-> FALSE, hit |-> FALSE]
    ELSE IF ch = "\\"
    THEN [depth |-> st.depth, inString |-> st.inString, escapeNext |-> TRUE, hit |-> FALSE]
    ELSE IF ch = "\""
    THEN [depth |-> st.depth, inString |-> ~st.inString, escapeNext |-> FALSE, hit |-> FALSE]
    ELSE IF ~st.inString /\ ch = open
    THEN [depth |-> st.depth + 1, inString |-> st.inString, escapeNext |-> FALSE, hit |-> FALSE]
    ELSE IF ~st.inString /\ ch = close
    THEN [depth |-> st.depth - 1, inString |-> st.inString, escapeNext |-> FALSE,
          hit |-> (st.depth - 1 = 0)]
    ELSE [depth |-> st.depth, inString |-> st.inString, escapeNext |-> FALSE, hit |-> FALSE]

\* text.substring(startIdx, i + 1), the value of the return statement
ReturnedShort(text, start, idx) == Substring(text, start, idx)

Returned(text, start, idx) == Substring(text, start, idx + 1)

\* the i++ of the for statement
NextIndexStuck(idx, ch) == IF ch = "\\" THEN idx ELSE idx + 1

NextIndex(idx, ch) == idx + 1

ScanInit == [depth |-> 0, inString |-> FALSE, escapeNext |-> FALSE, hit |-> FALSE]

(***************************************************************************)
(* Inputs of the extractor.  An input is prefix \o object \o suffix; the   *)
(* object is a sequence of [c, s] where c is the character and s tells     *)
(* whether the character belongs to the content of a JSON string.          *)
(***************************************************************************)
Sigma == {"{", "}", "[", "]", "\"", "\\", "a", " ", "\t", Tick}

RECURSIVE SeqsUpTo(_, _)
SeqsUpTo(S, n) ==
    IF n = 0 THEN {<<>>}
    ELSE LET shorter == SeqsUpTo(S, n - 1)
         IN  shorter \cup {Append(s, x) : s \in shorter, x \in S}

Plain(s) == [n \in 1..Len(s) |-> [c |-> s[n], s |-> FALSE]]
InStr(s) == [n \in 1..Len(s) |-> [c |-> s[n], s |-> TRUE]]
Chars(t) == [n \in 1..Len(t) |-> t[n].c]

\* what may stand between the quotes of a JSON string
StrAtoms == {<<"{">>, <<"}">>, <<"[">>, <<"]">>, <<"\\", "\"">>, <<"\\", "\\">>, <<"a">>}

RECURSIVE Bodies(_)
Bodies(n) ==
    IF n = 0 THEN {<<>>}
    ELSE LET shorter == Bodies(n - 1)
         IN  shorter \cup {b \o a : b \in shorter, a \in StrAtoms}

StrVal(b) == Plain(<<"\"">>) \o InStr(b) \o Plain(<<"\"">>)
ObjOf(v) == Plain(<<"{", "\"", "a", "\"", ":">>) \o v \o Plain(<<"}">>)
ArrOf(v) == Plain(<<"[">>) \o v \o Plain(<<"]">>)

Scalars(n) == {StrVal(b) : b \in Bodies(n)} \cup {Plain(<<"1">>)}
JsonValues ==
    Scalars(MaxBody)
    \cup {ObjOf(v) : v \in Scalars(1)}
    \cup {ArrOf(v) : v \in Scalars(1)}
    \cup {ArrOf(ObjOf(Plain(<<"1">>)))}
JsonObjects == {ObjOf(v) : v \in JsonValues}

\* prose and fence markers without any bracket
CleanPrefixes ==
    { <<>>,
      <<"a", " ">>,
      <<Tick, Tick, Tick, "j", "s", "o", "n", "\n">>,
      <<" ", Tick, Tick, Tick, "\n">>,
      <<"\t", Tick, Tick, Tick, "j", "s", "o", "n", "\r", "\n">> }
\* prose that holds a bracket but no JSON value
BracketPrefixes == { <<"[", "x", "]", " ">>, <<"a", "{", " ">> }
ProsePrefixes == CleanPrefixes \cup BracketPrefixes
ProseSuffixes ==
    { <<>>,
      <<"\n", Tick, Tick, Tick>>,
      <<"\r", "\n", Tick, Tick, Tick, "\\u00a0", "\t">>,
      <<" ", "a", "}">>,
      <<" ", "\"", "]">> }
\* a second JSON-looking fragment after the object
FragmentSuffixes == { <<" ", "{", "}">>, <<"[", "1", "]">> }

RawInputs ==
    {[pre |-> s, obj |-> <<>>, post |-> <<>>] : s \in SeqsUpTo(Sigma, MaxLen)}
EmbeddedInputs ==
    {[pre |-> p, obj |-> o, post |-> q] :
        p \in ProsePrefixes, o \in JsonObjects, q \in ProseSuffixes \cup FragmentSuffixes}
Inputs == RawInputs \cup EmbeddedInputs

Text(in) == in.pre \o Chars(in.obj) \o in.post

(***************************************************************************)
(* cleanJsonResponse and extractBalancedJson.                              *)
(***************************************************************************)
ExtractIdle ==
    /\ input = [pre |-> <<>>, obj |-> <<>>, post |-> <<>>]
    /\ pc = "done"
    /\ cleaned = <<>>
    /\ startIdx = -1
    /\ openChar = ""
    /\ closeChar = ""
    /\ i = 0
    /\ scan = ScanInit
    /\ extracted = Null
    /\ result = Str(<<>>)

\* cleanJsonResponse up to the call of extractBalancedJson, or to its last
\* line when the text holds neither { nor [
Clean ==
    /\ pc = "start"
    /\ LET c == CleanFences(Text(input))
           firstBrace == IndexOf(c, "{")
           firstBracket == IndexOf(c, "[")
       IN  /\ cleaned' = c
           /\ IF firstBrace # -1 /\ (firstBracket = -1 \/ firstBrace < firstBracket)
              THEN /\ startIdx' = firstBrace
                   /\ openChar' = "{"
                   /\ closeChar' = "}"
                   /\ i' = firstBrace
                   /\ pc' = "scan"
                   /\ result' = result
              ELSE IF firstBracket # -1
              THEN /\ startIdx' = firstBracket
                   /\ openChar' = "["
                   /\ closeChar' = "]"
                   /\ i' = firstBracket
                   /\ pc' = "scan"
                   /\ result' = result
              ELSE /\ UNCHANGED <<startIdx, openChar, closeChar, i>>
                   /\ pc' = "done"
                   /\ result' = Str(Trim(c))
    /\ scan' = ScanInit
    /\ extracted' = Null
    /\ UNCHANGED <<input, svars, avars, nvars, cvars>>

\* one iteration of the for loop; on the return statement the caller
\* returns the extracted text
ScanStep ==
    /\ pc = "scan"
    /\ i < Len(cleaned)
    /\ LET ch == cleaned[i + 1]
           st == ScanChar(scan, ch, openChar, closeChar)
       IN  /\ scan' = st
           /\ IF st.hit
              THEN /\ extracted' = Str(Returned(cleaned, startIdx, i))
                   /\ result' = Str(Returned(cleaned, startIdx, i))
                   /\ pc' = "done"
                   /\ i' = i
              ELSE /\ i' = NextIndex(i, ch)
                   /\ UNCHANGED <<extracted, result, pc>>
    /\ UNCHANGED <<input, cleaned, startIdx, openChar, closeChar, svars, avars, nvars, cvars>>

\* the loop ends without a return: extractBalancedJson returns null and
\* cleanJsonResponse returns cleaned.trim()
ScanExhausted ==
    /\ pc = "scan"
    /\ i >= Len(cleaned)
    /\ extracted' = Null
    /\ result' = Str(Trim(cleaned))
    /\ pc' = "done"
    /\ UNCHANGED <<input, cleaned, startIdx, openChar, closeChar, i, scan, svars, avars, nvars, cvars>>

(***************************************************************************)
(* String primitives used by analyzeCommitImpact.                          *)
(***************************************************************************)
UpperToLower ==
    ("A" :> "a") @@ ("B" :> "b") @@ ("C" :> "c") @@ ("D" :> "d") @@ ("E" :> "e") @@ ("F" :> "f")
    @@ ("G" :> "g") @@ ("H" :> "h") @@ ("I" :> "i") @@ ("J" :> "j") @@ ("K" :> "k") @@ ("L" :> "l")
    @@ ("M" :> "m") @@ ("N" :> "n") @@ ("O" :> "o") @@ ("P" :> "p") @@ ("Q" :> "q") @@ ("R" :> "r")
    @@ ("S" :> "s") @@ ("T" :> "t") @@ ("U" :> "u") @@ ("V" :> "v") @@ ("W" :> "w") @@ ("X" :> "x")
    @@ ("Y" :> "y") @@ ("Z" :> "z")

\* A code unit that a TLA+ string cannot hold is written by its escape
\* sequence \uXXXX, with lower-case digits, as one character.  The number of
\* the code unit such a character stands for:
HexDigits == "0123456789abcdef"

HexValue(d) == CHOOSE v \in 0..15 : SubSeq(HexDigits, v + 1, v + 1) = d

CodeOf(c) ==
    4096 * HexValue(SubSeq(c, 3, 3)) + 256 * HexValue(SubSeq(c, 4, 4))
    + 16 * HexValue(SubSeq(c, 5, 5)) + HexValue(SubSeq(c, 6, 6))

\* the character for a code unit: a lower-case letter of ASCII is itself
UnitOf(n) ==
    IF n \in 97..122 THEN SubSeq("abcdefghijklmnopqrstuvwxyz", n - 96, n - 96)
    ELSE "\\u" \o SubSeq(HexDigits, (n \div 4096) + 1, (n \div 4096) + 1)
              \o SubSeq(HexDigits, ((n \div 256) % 16) + 1, ((n \div 256) % 16) + 1)
              \o SubSeq(HexDigits, ((n \div 16) % 16) + 1, ((n \div 16) % 16) + 1)
              \o SubSeq(HexDigits, (n % 16) + 1, (n % 16) + 1)

\* the code units of a code point: itself, or a surrogate pair
UnitsOf(cp) ==
    IF cp < 65536 THEN <<UnitOf(cp)>>
    ELSE <<UnitOf(55296 + ((cp - 65536) \div 1024)), UnitOf(56320 + ((cp - 65536) % 1024))>>

\* the code point of a surrogate pair
CodePoint(hi, lo) == 65536 + (CodeOf(hi) - 55296) * 1024 + (CodeOf(lo) - 56320)

\* c is a surrogate of the half that begins at first
IsSurrogate(c, first) == Len(c) = 6 /\ CodeOf(c) \in first..(first + 1023)

\* a surrogate pair begins at s[at]
PairAt(s, at) ==
    /\ at >= 1
    /\ at < Len(s)
    /\ IsSurrogate(s[at], 55296)
    /\ IsSurrogate(s[at + 1], 56320)

\* The lower-case mappings of toLowerCase, as runs <<first, last, step,
\* delta>>: every code point first, first + step, ..., last becomes itself
\* plus delta.  U+0130, which becomes two code units, and the final form of
\* U+03A3 are not in the table.  The table is that of Unicode 17.
LowerRuns == {
    <<\h0041, \h005A, 1, 32>>, <<\h00C0, \h00D6, 1, 32>>, <<\h00D8, \h00DE, 1, 32>>,
    <<\h0100, \h012E, 2, 1>>, <<\h0132, \h0136, 2, 1>>, <<\h0139, \h0147, 2, 1>>,
    <<\h014A, \h0176, 2, 1>>, <<\h0178, \h0178, 1, -121>>, <<\h0179, \h017D, 2, 1>>,
    <<\h0181, \h0181, 1, 210>>, <<\h0182, \h0184, 2, 1>>, <<\h0186, \h0186, 1, 206>>,
    <<\h0187, \h0187, 1, 1>>, <<\h0189, \h018A, 1, 205>>, <<\h018B, \h018B, 1, 1>>,
    <<\h018E, \h018E, 1, 79>>, <<\h018F, \h018F, 1, 202>>, <<\h0190, \h0190, 1, 203>>,
    <<\h0191, \h0191, 1, 1>>, <<\h0193, \h0193, 1, 205>>, <<\h0194, \h0194, 1, 207>>,
    <<\h0196, \h0196, 1, 211>>, <<\h0197, \h0197, 1, 209>>, <<\h0198, \h0198, 1, 1>>,
    <<\h019C, \h019C, 1, 211>>, <<\h019D, \h019D, 1, 213>>, <<\h019F, \h019F, 1, 214>>,
    <<\h01A0, \h01A4, 2, 1>>, <<\h01A6, \h01A6, 1, 218>>, <<\h01A7, \h01A7, 1, 1>>,
    <<\h01A9, \h01A9, 1, 218>>, <<\h01AC, \h01AC, 1, 1>>, <<\h01AE, \h01AE, 1, 218>>,
    <<\h01AF, \h01AF, 1, 1>>, <<\h01B1, \h01B2, 1, 217>>, <<\h01B3, \h01B5, 2, 1>>,
    <<\h01B7, \h01B7, 1, 219>>, <<\h01B8, \h01B8, 1, 1>>, <<\h01BC, \h01BC, 1, 1>>,
    <<\h01C4, \h01C4, 1, 2>>, <<\h01C5, \h01C5, 1, 1>>, <<\h01C7, \h01C7, 1, 2>>,
    <<\h01C8, \h01C8, 1, 1>>, <<\h01CA, \h01CA, 1, 2>>, <<\h01CB, \h01DB, 2, 1>>,
    <<\h01DE, \h01EE, 2, 1>>, <<\h01F1, \h01F1, 1, 2>>, <<\h01F2, \h01F4, 2, 1>>,
    <<\h01F6, \h01F6, 1, -97>>, <<\h01F7, \h01F7, 1, -56>>, <<\h01F8, \h021E, 2, 1>>,
    <<\h0220, \h0220, 1, -130>>, <<\h0222, \h0232, 2, 1>>, <<\h023A, \h023A, 1, 10795>>,
    <<\h023B, \h023B, 1, 1>>, <<\h023D, \h023D, 1, -163>>, <<\h023E, \h023E, 1, 10792>>,
    <<\h0241, \h0241, 1, 1>>, <<\h0243, \h0243, 1, -195>>, <<\h0244, \h0244, 1, 69>>,
    <<\h0245, \h0245, 1, 71>>, <<\h0246, \h024E, 2, 1>>, <<\h0370, \h0372, 2, 1>>,
    <<\h0376, \h0376, 1, 1>>, <<\h037F, \h037F, 1, 116>>, <<\h0386, \h0386, 1, 38>>,
    <<\h0388, \h038A, 1, 37>>, <<\h038C, \h038C, 1, 64>>, <<\h038E, \h038F, 1, 63>>,
    <<\h0391, \h03A1, 1, 32>>, <<\h03A3, \h03AB, 1, 32>>, <<\h03CF, \h03CF, 1, 8>>,
    <<\h03D8, \h03EE, 2, 1>>, <<\h03F4, \h03F4, 1, -60>>, <<\h03F7, \h03F7, 1, 1>>,
    <<\h03F9, \h03F9, 1, -7>>, <<\h03FA, \h03FA, 1, 1>>, <<\h03FD, \h03FF, 1, -130>>,
    <<\h0400, \h040F, 1, 80>>, <<\h0410, \h042F, 1, 32>>, <<\h0460, \h0480, 2, 1>>,
    <<\h048A, \h04BE, 2, 1>>, <<\h04C0, \h04C0, 1, 15>>, <<\h04C1, \h04CD, 2, 1>>,
    <<\h04D0, \h052E, 2, 1>>, <<\h0531, \h0556, 1, 48>>, <<\h10A0, \h10C5, 1, 7264>>,
    <<\h10C7, \h10C7, 1, 7264>>, <<\h10CD, \h10CD, 1, 7264>>, <<\h13A0, \h13EF, 1, 38864>>,
    <<\h13F0, \h13F5, 1, 8>>, <<\h1C89, \h1C89, 1, 1>>, <<\h1C90, \h1CBA, 1, -3008>>,
    <<\h1CBD, \h1CBF, 1, -3008>>, <<\h1E00, \h1E94, 2, 1>>, <<\h1E9E, \h1E9E, 1, -7615>>,
    <<\h1EA0, \h1EFE, 2, 1>>, <<\h1F08, \h1F0F, 1, -8>>, <<\h1F18, \h1F1D, 1, -8>>,
    <<\h1F28, \h1F2F, 1, -8>>, <<\h1F38, \h1F3F, 1, -8>>, <<\h1F48, \h1F4D, 1, -8>>,
    <<\h1F59, \h1F5F, 2, -8>>, <<\h1F68, \h1F6F, 1, -8>>, <<\h1F88, \h1F8F, 1, -8>>,
    <<\h1F98, \h1F9F, 1, -8>>, <<\h1FA8, \h1FAF, 1, -8>>, <<\h1FB8, \h1FB9, 1, -8>>,
    <<\h1FBA, \h1FBB, 1, -74>>, <<\h1FBC, \h1FBC, 1, -9>>, <<\h1FC8, \h1FCB, 1, -86>>,
    <<\h1FCC, \h1FCC, 1, -9>>, <<\h1FD8, \h1FD9, 1, -8>>, <<\h1FDA, \h1FDB, 1, -100>>,
    <<\h1FE8, \h1FE9, 1, -8>>, <<\h1FEA, \h1FEB, 1, -112>>, <<\h1FEC, \h1FEC, 1, -7>>,
    <<\h1FF8, \h1FF9, 1, -128>>, <<\h1FFA, \h1FFB, 1, -126>>, <<\h1FFC, \h1FFC, 1, -9>>,
    <<\h2126, \h2126, 1, -7517>>, <<\h212A, \h212A, 1, -8383>>, <<\h212B, \h212B, 1, -8262>>,
    <<\h2132, \h2132, 1, 28>>, <<\h2160, \h216F, 1, 16>>, <<\h2183, \h2183, 1, 1>>,
    <<\h24B6, \h24CF, 1, 26>>, <<\h2C00, \h2C2F, 1, 48>>, <<\h2C60, \h2C60, 1, 1>>,
    <<\h2C62, \h2C62, 1, -10743>>, <<\h2C63, \h2C63, 1, -3814>>, <<\h2C64, \h2C64, 1, -10727>>,
    <<\h2C67, \h2C6B, 2, 1>>, <<\h2C6D, \h2C6D, 1, -10780>>, <<\h2C6E, \h2C6E, 1, -10749>>,
    <<\h2C6F, \h2C6F, 1, -10783>>, <<\h2C70, \h2C70, 1, -10782>>, <<\h2C72, \h2C72, 1, 1>>,
    <<\h2C75, \h2C75, 1, 1>>, <<\h2C7E, \h2C7F, 1, -10815>>, <<\h2C80, \h2CE2, 2, 1>>,
    <<\h2CEB, \h2CED, 2, 1>>, <<\h2CF2, \h2CF2, 1, 1>>, <<\hA640, \hA66C, 2, 1>>,
    <<\hA680, \hA69A, 2, 1>>, <<\hA722, \hA72E, 2, 1>>, <<\hA732, \hA76E, 2, 1>>,
    <<\hA779, \hA77B, 2, 1>>, <<\hA77D, \hA77D, 1, -35332>>, <<\hA77E, \hA786, 2, 1>>,
    <<\hA78B, \hA78B, 1, 1>>, <<\hA78D, \hA78D, 1, -42280>>, <<\hA790, \hA792, 2, 1>>,
    <<\hA796, \hA7A8, 2, 1>>, <<\hA7AA, \hA7AA, 1, -42308>>, <<\hA7AB, \hA7AB, 1, -42319>>,
    <<\hA7AC, \hA7AC, 1, -42315>>, <<\hA7AD, \hA7AD, 1, -42305>>, <<\hA7AE, \hA7AE, 1, -42308>>,
    <<\hA7B0, \hA7B0, 1, -42258>>, <<\hA7B1, \hA7B1, 1, -42282>>, <<\hA7B2, \hA7B2, 1, -42261>>,
    <<\hA7B3, \hA7B3, 1, 928>>, <<\hA7B4, \hA7C2, 2, 1>>, <<\hA7C4, \hA7C4, 1, -48>>,
    <<\hA7C5, \hA7C5, 1, -42307>>, <<\hA7C6, \hA7C6, 1, -35384>>, <<\hA7C7, \hA7C9, 2, 1>>,
    <<\hA7CB, \hA7CB, 1, -42343>>, <<\hA7CC, \hA7DA, 2, 1>>, <<\hA7DC, \hA7DC, 1, -42561>>,
    <<\hA7F5, \hA7F5, 1, 1>>, <<\hFF21, \hFF3A, 1, 32>>, <<\h10400, \h10427, 1, 40>>,
    <<\h104B0, \h104D3, 1, 40>>, <<\h10570, \h1057A, 1, 39>>, <<\h1057C, \h1058A, 1, 39>>,
    <<\h1058C, \h10592, 1, 39>>, <<\h10594, \h10595, 1, 39>>, <<\h10C80, \h10CB2, 1, 64>>,
    <<\h10D50, \h10D65, 1, 32>>, <<\h118A0, \h118BF, 1, 32>>, <<\h16E40, \h16E5F, 1, 32>>,
    <<\h16EA0, \h16EB8, 1, 27>>, <<\h1E900, \h1E921, 1, 34>>}

\* the code points toLowerCase skips when it looks for the cased letter
\* before and after a capital sigma (Case_Ignorable of Unicode 17)
CaseIgnorableRuns == {
    <<\h0027, \h0027>>, <<\h002E, \h002E>>, <<\h003A, \h003A>>, <<\h005E, \h005E>>, <<\h0060, \h0060>>,
    <<\h00A8, \h00A8>>, <<\h00AD, \h00AD>>, <<\h00AF, \h00AF>>, <<\h00B4, \h00B4>>, <<\h00B7, \h00B8>>,
    <<\h02B0, \h036F>>, <<\h0374, \h0375>>, <<\h037A, \h037A>>, <<\h0384, \h0385>>, <<\h0387, \h0387>>,
    <<\h0483, \h0489>>, <<\h0559, \h0559>>, <<\h055F, \h055F>>, <<\h0591, \h05BD>>, <<\h05BF, \h05BF>>,
    <<\h05C1, \h05C2>>, <<\h05C4, \h05C5>>, <<\h05C7, \h05C7>>, <<\h05F4, \h05F4>>, <<\h0600, \h0605>>,
    <<\h0610, \h061A>>, <<\h061C, \h061C>>, <<\h0640, \h0640>>, <<\h064B, \h065F>>, <<\h0670, \h0670>>,
    <<\h06D6, \h06DD>>, <<\h06DF, \h06E8>>, <<\h06EA, \h06ED>>, <<\h070F, \h070F>>, <<\h0711, \h0711>>,
    <<\h0730, \h074A>>, <<\h07A6, \h07B0>>, <<\h07EB, \h07F5>>, <<\h07FA, \h07FA>>, <<\h07FD, \h07FD>>,
    <<\h0816, \h082D>>, <<\h0859, \h085B>>, <<\h0888, \h0888>>, <<\h0890, \h0891>>, <<\h0897, \h089F>>,
    <<\h08C9, \h0902>>, <<\h093A, \h093A>>, <<\h093C, \h093C>>, <<\h0941, \h0948>>, <<\h094D, \h094D>>,
    <<\h0951, \h0957>>, <<\h0962, \h0963>>, <<\h0971, \h0971>>, <<\h0981, \h0981>>, <<\h09BC, \h09BC>>,
    <<\h09C1, \h09C4>>, <<\h09CD, \h09CD>>, <<\h09E2, \h09E3>>, <<\h09FE, \h09FE>>, <<\h0A01, \h0A02>>,
    <<\h0A3C, \h0A3C>>, <<\h0A41, \h0A42>>, <<\h0A47, \h0A48>>, <<\h0A4B, \h0A4D>>, <<\h0A51, \h0A51>>,
    <<\h0A70, \h0A71>>, <<\h0A75, \h0A75>>, <<\h0A81, \h0A82>>, <<\h0ABC, \h0ABC>>, <<\h0AC1, \h0AC5>>,
    <<\h0AC7, \h0AC8>>, <<\h0ACD, \h0ACD>>, <<\h0AE2, \h0AE3>>, <<\h0AFA, \h0AFF>>, <<\h0B01, \h0B01>>,
    <<\h0B3C, \h0B3C>>, <<\h0B3F, \h0B3F>>, <<\h0B41, \h0B44>>, <<\h0B4D, \h0B4D>>, <<\h0B55, \h0B56>>,
    <<\h0B62, \h0B63>>, <<\h0B82, \h0B82>>, <<\h0BC0, \h0BC0>>, <<\h0BCD, \h0BCD>>, <<\h0C00, \h0C00>>,
    <<\h0C04, \h0C04>>, <<\h0C3C, \h0C3C>>, <<\h0C3E, \h0C40>>, <<\h0C46, \h0C48>>, <<\h0C4A, \h0C4D>>,
    <<\h0C55, \h0C56>>, <<\h0C62, \h0C63>>, <<\h0C81, \h0C81>>, <<\h0CBC, \h0CBC>>, <<\h0CBF, \h0CBF>>,
    <<\h0CC6, \h0CC6>>, <<\h0CCC, \h0CCD>>, <<\h0CE2, \h0CE3>>, <<\h0D00, \h0D01>>, <<\h0D3B, \h0D3C>>,
    <<\h0D41, \h0D44>>, <<\h0D4D, \h0D4D>>, <<\h0D62, \h0D63>>, <<\h0D81, \h0D81>>, <<\h0DCA, \h0DCA>>,
    <<\h0DD2, \h0DD4>>, <<\h0DD6, \h0DD6>>, <<\h0E31, \h0E31>>, <<\h0E34, \h0E3A>>, <<\h0E46, \h0E4E>>,
    <<\h0EB1, \h0EB1>>, <<\h0EB4, \h0EBC>>, <<\h0EC6, \h0EC6>>, <<\h0EC8, \h0ECE>>, <<\h0F18, \h0F19>>,
    <<\h0F35, \h0F35>>, <<\h0F37, \h0F37>>, <<\h0F39, \h0F39>>, <<\h0F71, \h0F7E>>, <<\h0F80, \h0F84>>,
    <<\h0F86, \h0F87>>, <<\h0F8D, \h0F97>>, <<\h0F99, \h0FBC>>, <<\h0FC6, \h0FC6>>, <<\h102D, \h1030>>,
    <<\h1032, \h1037>>, <<\h1039, \h103A>>, <<\h103D, \h103E>>, <<\h1058, \h1059>>, <<\h105E, \h1060>>,
    <<\h1071, \h1074>>, <<\h1082, \h1082>>, <<\h1085, \h1086>>, <<\h108D, \h108D>>, <<\h109D, \h109D>>,
    <<\h10FC, \h10FC>>, <<\h135D, \h135F>>, <<\h1712, \h1714>>, <<\h1732, \h1733>>, <<\h1752, \h1753>>,
    <<\h1772, \h1773>>, <<\h17B4, \h17B5>>, <<\h17B7, \h17BD>>, <<\h17C6, \h17C6>>, <<\h17C9, \h17D3>>,
    <<\h17D7, \h17D7>>, <<\h17DD, \h17DD>>, <<\h180B, \h180F>>, <<\h1843, \h1843>>, <<\h1885, \h1886>>,
    <<\h18A9, \h18A9>>, <<\h1920, \h1922>>, <<\h1927, \h1928>>, <<\h1932, \h1932>>, <<\h1939, \h193B>>,
    <<\h1A17, \h1A18>>, <<\h1A1B, \h1A1B>>, <<\h1A56, \h1A56>>, <<\h1A58, \h1A5E>>, <<\h1A60, \h1A60>>,
    <<\h1A62, \h1A62>>, <<\h1A65, \h1A6C>>, <<\h1A73, \h1A7C>>, <<\h1A7F, \h1A7F>>, <<\h1AA7, \h1AA7>>,
    <<\h1AB0, \h1ADD>>, <<\h1AE0, \h1AEB>>, <<\h1B00, \h1B03>>, <<\h1B34, \h1B34>>, <<\h1B36, \h1B3A>>,
    <<\h1B3C, \h1B3C>>, <<\h1B42, \h1B42>>, <<\h1B6B, \h1B73>>, <<\h1B80, \h1B81>>, <<\h1BA2, \h1BA5>>,
    <<\h1BA8, \h1BA9>>, <<\h1BAB, \h1BAD>>, <<\h1BE6, \h1BE6>>, <<\h1BE8, \h1BE9>>, <<\h1BED, \h1BED>>,
    <<\h1BEF, \h1BF1>>, <<\h1C2C, \h1C33>>, <<\h1C36, \h1C37>>, <<\h1C78, \h1C7D>>, <<\h1CD0, \h1CD2>>,
    <<\h1CD4, \h1CE0>>, <<\h1CE2, \h1CE8>>, <<\h1CED, \h1CED>>, <<\h1CF4, \h1CF4>>, <<\h1CF8, \h1CF9>>,
    <<\h1D2C, \h1D6A>>, <<\h1D78, \h1D78>>, <<\h1D9B, \h1DFF>>, <<\h1FBD, \h1FBD>>, <<\h1FBF, \h1FC1>>,
    <<\h1FCD, \h1FCF>>, <<\h1FDD, \h1FDF>>, <<\h1FED, \h1FEF>>, <<\h1FFD, \h1FFE>>, <<\h200B, \h200F>>,
    <<\h2018, \h2019>>, <<\h2024, \h2024>>, <<\h2027, \h2027>>, <<\h202A, \h202E>>, <<\h2060, \h2064>>,
    <<\h2066, \h206F>>, <<\h2071, \h2071>>, <<\h207F, \h207F>>, <<\h2090, \h209C>>, <<\h20D0, \h20F0>>,
    <<\h2C7C, \h2C7D>>, <<\h2CEF, \h2CF1>>, <<\h2D6F, \h2D6F>>, <<\h2D7F, \h2D7F>>, <<\h2DE0, \h2DFF>>,
    <<\h2E2F, \h2E2F>>, <<\h3005, \h3005>>, <<\h302A, \h302D>>, <<\h3031, \h3035>>, <<\h303B, \h303B>>,
    <<\h3099, \h309E>>, <<\h30FC, \h30FE>>, <<\hA015, \hA015>>, <<\hA4F8, \hA4FD>>, <<\hA60C, \hA60C>>,
    <<\hA66F, \hA672>>, <<\hA674, \hA67D>>, <<\hA67F, \hA67F>>, <<\hA69C, \hA69F>>, <<\hA6F0, \hA6F1>>,
    <<\hA700, \hA721>>, <<\hA770, \hA770>>, <<\hA788, \hA78A>>, <<\hA7F1, \hA7F4>>, <<\hA7F8, \hA7F9>>,
    <<\hA802, \hA802>>, <<\hA806, \hA806>>, <<\hA80B, \hA80B>>, <<\hA825, \hA826>>, <<\hA82C, \hA82C>>,
    <<\hA8C4, \hA8C5>>, <<\hA8E0, \hA8F1>>, <<\hA8FF, \hA8FF>>, <<\hA926, \hA92D>>, <<\hA947, \hA951>>,
    <<\hA980, \hA982>>, <<\hA9B3, \hA9B3>>, <<\hA9B6, \hA9B9>>, <<\hA9BC, \hA9BD>>, <<\hA9CF, \hA9CF>>,
    <<\hA9E5, \hA9E6>>, <<\hAA29, \hAA2E>>, <<\hAA31, \hAA32>>, <<\hAA35, \hAA36>>, <<\hAA43, \hAA43>>,
    <<\hAA4C, \hAA4C>>, <<\hAA70, \hAA70>>, <<\hAA7C, \hAA7C>>, <<\hAAB0, \hAAB0>>, <<\hAAB2, \hAAB4>>,
    <<\hAAB7, \hAAB8>>, <<\hAABE, \hAABF>>, <<\hAAC1, \hAAC1>>, <<\hAADD, \hAADD>>, <<\hAAEC, \hAAED>>,
    <<\hAAF3, \hAAF4>>, <<\hAAF6, \hAAF6>>, <<\hAB5B, \hAB5F>>, <<\hAB69, \hAB6B>>, <<\hABE5, \hABE5>>,
    <<\hABE8, \hABE8>>, <<\hABED, \hABED>>, <<\hFB1E, \hFB1E>>, <<\hFBB2, \hFBC2>>, <<\hFE00, \hFE0F>>,
    <<\hFE13, \hFE13>>, <<\hFE20, \hFE2F>>, <<\hFE52, \hFE52>>, <<\hFE55, \hFE55>>, <<\hFEFF, \hFEFF>>,
    <<\hFF07, \hFF07>>, <<\hFF0E, \hFF0E>>, <<\hFF1A, \hFF1A>>, <<\hFF3E, \hFF3E>>, <<\hFF40, \hFF40>>,
    <<\hFF70, \hFF70>>, <<\hFF9E, \hFF9F>>, <<\hFFE3, \hFFE3>>, <<\hFFF9, \hFFFB>>, <<\h101FD, \h101FD>>,
    <<\h102E0, \h102E0>>, <<\h10376, \h1037A>>, <<\h10780, \h10785>>, <<\h10787, \h107B0>>, <<\h107B2, \h107BA>>,
    <<\h10A01, \h10A03>>, <<\h10A05, \h10A06>>, <<\h10A0C, \h10A0F>>, <<\h10A38, \h10A3A>>, <<\h10A3F, \h10A3F>>,
    <<\h10AE5, \h10AE6>>, <<\h10D24, \h10D27>>, <<\h10D4E, \h10D4E>>, <<\h10D69, \h10D6D>>, <<\h10D6F, \h10D6F>>,
    <<\h10EAB, \h10EAC>>, <<\h10EC5, \h10EC5>>, <<\h10EFA, \h10EFF>>, <<\h10F46, \h10F50>>, <<\h10F82, \h10F85>>,
    <<\h11001, \h11001>>, <<\h11038, \h11046>>, <<\h11070, \h11070>>, <<\h11073, \h11074>>, <<\h1107F, \h11081>>,
    <<\h110B3, \h110B6>>, <<\h110B9, \h110BA>>, <<\h110BD, \h110BD>>, <<\h110C2, \h110C2>>, <<\h110CD, \h110CD>>,
    <<\h11100, \h11102>>, <<\h11127, \h1112B>>, <<\h1112D, \h11134>>, <<\h11173, \h11173>>, <<\h11180, \h11181>>,
    <<\h111B6, \h111BE>>, <<\h111C9, \h111CC>>, <<\h111CF, \h111CF>>, <<\h1122F, \h11231>>, <<\h11234, \h11234>>,
    <<\h11236, \h11237>>, <<\h1123E, \h1123E>>, <<\h11241, \h11241>>, <<\h112DF, \h112DF>>, <<\h112E3, \h112EA>>,
    <<\h11300, \h11301>>, <<\h1133B, \h1133C>>, <<\h11340, \h11340>>, <<\h11366, \h1136C>>, <<\h11370, \h11374>>,
    <<\h113BB, \h113C0>>, <<\h113CE, \h113CE>>, <<\h113D0, \h113D0>>, <<\h113D2, \h113D2>>, <<\h113E1, \h113E2>>,
    <<\h11438, \h1143F>>, <<\h11442, \h11444>>, <<\h11446, \h11446>>, <<\h1145E, \h1145E>>, <<\h114B3, \h114B8>>,
    <<\h114BA, \h114BA>>, <<\h114BF, \h114C0>>, <<\h114C2, \h114C3>>, <<\h115B2, \h115B5>>, <<\h115BC, \h115BD>>,
    <<\h115BF, \h115C0>>, <<\h115DC, \h115DD>>, <<\h11633, \h1163A>>, <<\h1163D, \h1163D>>, <<\h1163F, \h11640>>,
    <<\h116AB, \h116AB>>, <<\h116AD, \h116AD>>, <<\h116B0, \h116B5>>, <<\h116B7, \h116B7>>, <<\h1171D, \h1171D>>,
    <<\h1171F, \h1171F>>, <<\h11722, \h11725>>, <<\h11727, \h1172B>>, <<\h1182F, \h11837>>, <<\h11839, \h1183A>>,
    <<\h1193B, \h1193C>>, <<\h1193E, \h1193E>>, <<\h11943, \h11943>>, <<\h119D4, \h119D7>>, <<\h119DA, \h119DB>>,
    <<\h119E0, \h119E0>>, <<\h11A01, \h11A0A>>, <<\h11A33, \h11A38>>, <<\h11A3B, \h11A3E>>, <<\h11A47, \h11A47>>,
    <<\h11A51, \h11A56>>, <<\h11A59, \h11A5B>>, <<\h11A8A, \h11A96>>, <<\h11A98, \h11A99>>, <<\h11B60, \h11B60>>,
    <<\h11B62, \h11B64>>, <<\h11B66, \h11B66>>, <<\h11C30, \h11C36>>, <<\h11C38, \h11C3D>>, <<\h11C3F, \h11C3F>>,
    <<\h11C92, \h11CA7>>, <<\h11CAA, \h11CB0>>, <<\h11CB2, \h11CB3>>, <<\h11CB5, \h11CB6>>, <<\h11D31, \h11D36>>,
    <<\h11D3A, \h11D3A>>, <<\h11D3C, \h11D3D>>, <<\h11D3F, \h11D45>>, <<\h11D47, \h11D47>>, <<\h11D90, \h11D91>>,
    <<\h11D95, \h11D95>>, <<\h11D97, \h11D97>>, <<\h11DD9, \h11DD9>>, <<\h11EF3, \h11EF4>>, <<\h11F00, \h11F01>>,
    <<\h11F36, \h11F3A>>, <<\h11F40, \h11F40>>, <<\h11F42, \h11F42>>, <<\h11F5A, \h11F5A>>, <<\h13430, \h13440>>,
    <<\h13447, \h13455>>, <<\h1611E, \h16129>>, <<\h1612D, \h1612F>>, <<\h16AF0, \h16AF4>>, <<\h16B30, \h16B36>>,
    <<\h16B40, \h16B43>>, <<\h16D40, \h16D42>>, <<\h16D6B, \h16D6C>>, <<\h16F4F, \h16F4F>>, <<\h16F8F, \h16F9F>>,
    <<\h16FE0, \h16FE1>>, <<\h16FE3, \h16FE4>>, <<\h16FF2, \h16FF3>>, <<\h1AFF0, \h1AFF3>>, <<\h1AFF5, \h1AFFB>>,
    <<\h1AFFD, \h1AFFE>>, <<\h1BC9D, \h1BC9E>>, <<\h1BCA0, \h1BCA3>>, <<\h1CF00, \h1CF2D>>, <<\h1CF30, \h1CF46>>,
    <<\h1D167, \h1D169>>, <<\h1D173, \h1D182>>, <<\h1D185, \h1D18B>>, <<\h1D1AA, \h1D1AD>>, <<\h1D242, \h1D244>>,
    <<\h1DA00, \h1DA36>>, <<\h1DA3B, \h1DA6C>>, <<\h1DA75, \h1DA75>>, <<\h1DA84, \h1DA84>>, <<\h1DA9B, \h1DA9F>>,
    <<\h1DAA1, \h1DAAF>>, <<\h1E000, \h1E006>>, <<\h1E008, \h1E018>>, <<\h1E01B, \h1E021>>, <<\h1E023, \h1E024>>,
    <<\h1E026, \h1E02A>>, <<\h1E030, \h1E06D>>, <<\h1E08F, \h1E08F>>, <<\h1E130, \h1E13D>>, <<\h1E2AE, \h1E2AE>>,
    <<\h1E2EC, \h1E2EF>>, <<\h1E4EB, \h1E4EF>>, <<\h1E5EE, \h1E5EF>>, <<\h1E6E3, \h1E6E3>>, <<\h1E6E6, \h1E6E6>>,
    <<\h1E6EE, \h1E6EF>>, <<\h1E6F5, \h1E6F5>>, <<\h1E6FF, \h1E6FF>>, <<\h1E8D0, \h1E8D6>>, <<\h1E944, \h1E94B>>,
    <<\h1F3FB, \h1F3FF>>, <<\hE0001, \hE0001>>, <<\hE0020, \hE007F>>, <<\hE0100, \hE01EF>>}

\* the code points that are cased letters and are not skipped (Cased of
\* Unicode 17 without Case_Ignorable)
CasedRuns == {
    <<\h0041, \h005A>>, <<\h0061, \h007A>>, <<\h00AA, \h00AA>>, <<\h00B5, \h00B5>>, <<\h00BA, \h00BA>>,
    <<\h00C0, \h00D6>>, <<\h00D8, \h00F6>>, <<\h00F8, \h01BA>>, <<\h01BC, \h01BF>>, <<\h01C4, \h0293>>,
    <<\h0296, \h02AF>>, <<\h0370, \h0373>>, <<\h0376, \h0377>>, <<\h037B, \h037D>>, <<\h037F, \h037F>>,
    <<\h0386, \h0386>>, <<\h0388, \h038A>>, <<\h038C, \h038C>>, <<\h038E, \h03A1>>, <<\h03A3, \h03F5>>,
    <<\h03F7, \h0481>>, <<\h048A, \h052F>>, <<\h0531, \h0556>>, <<\h0560, \h0588>>, <<\h10A0, \h10C5>>,
    <<\h10C7, \h10C7>>, <<\h10CD, \h10CD>>, <<\h10D0, \h10FA>>, <<\h10FD, \h10FF>>, <<\h13A0, \h13F5>>,
    <<\h13F8, \h13FD>>, <<\h1C80, \h1C8A>>, <<\h1C90, \h1CBA>>, <<\h1CBD, \h1CBF>>, <<\h1D00, \h1D2B>>,
    <<\h1D6B, \h1D77>>, <<\h1D79, \h1D9A>>, <<\h1E00, \h1F15>>, <<\h1F18, \h1F1D>>, <<\h1F20, \h1F45>>,
    <<\h1F48, \h1F4D>>, <<\h1F50, \h1F57>>, <<\h1F59, \h1F59>>, <<\h1F5B, \h1F5B>>, <<\h1F5D, \h1F5D>>,
    <<\h1F5F, \h1F7D>>, <<\h1F80, \h1FB4>>, <<\h1FB6, \h1FBC>>, <<\h1FBE, \h1FBE>>, <<\h1FC2, \h1FC4>>,
    <<\h1FC6, \h1FCC>>, <<\h1FD0, \h1FD3>>, <<\h1FD6, \h1FDB>>, <<\h1FE0, \h1FEC>>, <<\h1FF2, \h1FF4>>,
    <<\h1FF6, \h1FFC>>, <<\h2102, \h2102>>, <<\h2107, \h2107>>, <<\h210A, \h2113>>, <<\h2115, \h2115>>,
    <<\h2119, \h211D>>, <<\h2124, \h2124>>, <<\h2126, \h2126>>, <<\h2128, \h2128>>, <<\h212A, \h212D>>,
    <<\h212F, \h2134>>, <<\h2139, \h2139>>, <<\h213C, \h213F>>, <<\h2145, \h2149>>, <<\h214E, \h214E>>,
    <<\h2160, \h217F>>, <<\h2183, \h2184>>, <<\h24B6, \h24E9>>, <<\h2C00, \h2C7B>>, <<\h2C7E, \h2CE4>>,
    <<\h2CEB, \h2CEE>>, <<\h2CF2, \h2CF3>>, <<\h2D00, \h2D25>>, <<\h2D27, \h2D27>>, <<\h2D2D, \h2D2D>>,
    <<\hA640, \hA66D>>, <<\hA680, \hA69B>>, <<\hA722, \hA76F>>, <<\hA771, \hA787>>, <<\hA78B, \hA78E>>,
    <<\hA790, \hA7DC>>, <<\hA7F5, \hA7F6>>, <<\hA7FA, \hA7FA>>, <<\hAB30, \hAB5A>>, <<\hAB60, \hAB68>>,
    <<\hAB70, \hABBF>>, <<\hFB00, \hFB06>>, <<\hFB13, \hFB17>>, <<\hFF21, \hFF3A>>, <<\hFF41, \hFF5A>>,
    <<\h10400, \h1044F>>, <<\h104B0, \h104D3>>, <<\h104D8, \h104FB>>, <<\h10570, \h1057A>>, <<\h1057C, \h1058A>>,
    <<\h1058C, \h10592>>, <<\h10594, \h10595>>, <<\h10597, \h105A1>>, <<\h105A3, \h105B1>>, <<\h105B3, \h105B9>>,
    <<\h105BB, \h105BC>>, <<\h10C80, \h10CB2>>, <<\h10CC0, \h10CF2>>, <<\h10D50, \h10D65>>, <<\h10D70, \h10D85>>,
    <<\h118A0, \h118DF>>, <<\h16E40, \h16E7F>>, <<\h16EA0, \h16EB8>>, <<\h16EBB, \h16ED3>>, <<\h1D400, \h1D454>>,
    <<\h1D456, \h1D49C>>, <<\h1D49E, \h1D49F>>, <<\h1D4A2, \h1D4A2>>, <<\h1D4A5, \h1D4A6>>, <<\h1D4A9, \h1D4AC>>,
    <<\h1D4AE, \h1D4B9>>, <<\h1D4BB, \h1D4BB>>, <<\h1D4BD, \h1D4C3>>, <<\h1D4C5, \h1D505>>, <<\h1D507, \h1D50A>>,
    <<\h1D50D, \h1D514>>, <<\h1D516, \h1D51C>>, <<\h1D51E, \h1D539>>, <<\h1D53B, \h1D53E>>, <<\h1D540, \h1D544>>,
    <<\h1D546, \h1D546>>, <<\h1D54A, \h1D550>>, <<\h1D552, \h1D6A5>>, <<\h1D6A8, \h1D6C0>>, <<\h1D6C2, \h1D6DA>>,
    <<\h1D6DC, \h1D6FA>>, <<\h1D6FC, \h1D714>>, <<\h1D716, \h1D734>>, <<\h1D736, \h1D74E>>, <<\h1D750, \h1D76E>>,
    <<\h1D770, \h1D788>>, <<\h1D78A, \h1D7A8>>, <<\h1D7AA, \h1D7C2>>, <<\h1D7C4, \h1D7CB>>, <<\h1DF00, \h1DF09>>,
    <<\h1DF0B, \h1DF1E>>, <<\h1DF25, \h1DF2A>>, <<\h1E900, \h1E943>>, <<\h1F130, \h1F149>>, <<\h1F150, \h1F169>>,
    <<\h1F170, \h1F189>>}

InRuns(cp, runs) == \E r \in runs : r[1] <= cp /\ cp <= r[2]

\* the lower-case form of a code point
LowerCode(cp) ==
    IF \E r \in LowerRuns : r[1] <= cp /\ cp <= r[2] /\ (cp - r[1]) % r[3] = 0
    THEN cp + (CHOOSE r \in LowerRuns : r[1] <= cp /\ cp <= r[2] /\ (cp - r[1]) % r[3] = 0)[4]
    ELSE cp

\* the code units one code unit becomes under toLowerCase when it is the
\* whole string
LowerOf(c) ==
    IF c \in DOMAIN UpperToLower THEN <<UpperToLower[c]>>
    ELSE IF Len(c) # 6 THEN <<c>>
    ELSE IF c = "\\u0130" THEN <<"i", "\\u0307">>
    ELSE <<UnitOf(LowerCode(CodeOf(c)))>>

\* what the code point at s[at] is to a capital sigma that looks for a cased
\* letter: skipped, cased, or neither
CaseClass(s, at, pair) ==
    IF Len(s[at]) # 6
    THEN IF s[at] \in {"'", ".", ":", "^"} THEN "ignorable"
         ELSE IF s[at] \in DOMAIN UpperToLower \/ \E u \in DOMAIN UpperToLower : UpperToLower[u] = s[at]
         THEN "cased"
         ELSE "other"
    ELSE LET cp == IF pair THEN CodePoint(s[at], s[at + 1]) ELSE CodeOf(s[at])
         IN  IF InRuns(cp, CaseIgnorableRuns) THEN "ignorable"
             ELSE IF InRuns(cp, CasedRuns) THEN "cased"
             ELSE "other"

\* going back from s[j], the first code point that is not skipped is cased
RECURSIVE CasedBefore(_, _)
CasedBefore(s, j) ==
    IF j < 1 THEN FALSE
    ELSE LET pair == PairAt(s, j - 1)
             first == IF pair THEN j - 1 ELSE j
             class == CaseClass(s, first, pair)
         IN  IF class = "ignorable" THEN CasedBefore(s, first - 1) ELSE class = "cased"

\* going on from s[j], the first code point that is not skipped is cased
RECURSIVE CasedAfter(_, _)
CasedAfter(s, j) ==
    IF j > Len(s) THEN FALSE
    ELSE LET pair == PairAt(s, j)
             class == CaseClass(s, j, pair)
         IN  IF class = "ignorable" THEN CasedAfter(s, IF pair THEN j + 2 ELSE j + 1)
             ELSE class = "cased"

\* the lower-case form of s from s[at] on: a surrogate pair is one code
\* point, and a capital sigma that ends a word takes its final form
RECURSIVE LowerFrom(_, _)
LowerFrom(s, at) ==
    IF at > Len(s) THEN <<>>
    ELSE IF Len(s[at]) # 6 THEN LowerOf(s[at]) \o LowerFrom(s, at + 1)
    ELSE IF PairAt(s, at)
    THEN UnitsOf(LowerCode(CodePoint(s[at], s[at + 1]))) \o LowerFrom(s, at + 2)
    ELSE IF s[at] = "\\u03a3" /\ CasedBefore(s, at - 1) /\ ~CasedAfter(s, at + 1)
    THEN <<"\\u03c2">> \o LowerFrom(s, at + 1)
    ELSE LowerOf(s[at]) \o LowerFrom(s, at + 1)

\* s.toLowerCase()
ToLowerCase(s) == LowerFrom(s, 1)

\* s.includes(sub)
Includes(s, sub) ==
    \E n \in 0..(Len(s) - Len(sub)) : SubSeq(s, n + 1, n + Len(sub)) = sub

\* the decimal digits of a nonnegative integer, as a template literal prints it
DigitChars == <<"0", "1", "2", "3", "4", "5", "6", "7", "8", "9">>
RECURSIVE NumberText(_)
NumberText(n) ==
    IF n < 10 THEN <<DigitChars[n + 1]>>
    ELSE NumberText(n \div 10) \o <<DigitChars[(n % 10) + 1]>>

\* parts.join(sep)
RECURSIVE Join(_, _)
Join(parts, sep) ==
    IF parts = <<>> THEN <<>>
    ELSE IF Len(parts) = 1 THEN parts[1]
    ELSE parts[1] \o sep \o Join(Tail(parts), sep)

KwConfig == <<"c", "o", "n", "f", "i", "g">>
KwPackageJson == <<"p", "a", "c", "k", "a", "g", "e", ".", "j", "s", "o", "n">>
KwDockerfile == <<"d", "o", "c", "k", "e", "r", "f", "i", "l", "e">>
KwEnv == <<".", "e", "n", "v">>
KwMigration == <<"m", "i", "g", "r", "a", "t", "i", "o", "n">>
KwSchema == <<"s", "c", "h", "e", "m", "a">>
NewFileMarker == <<"n", "e", "w", " ", "f", "i", "l", "e", " ", "m", "o", "d", "e">>
DeletedFileMarker ==
    <<"d", "e", "l", "e", "t", "e", "d", " ", "f", "i", "l", "e", " ", "m", "o", "d", "e">>
TotalLineChangesText ==
    <<" ", "t", "o", "t", "a", "l", " ", "l", "i", "n", "e", " ", "c", "h", "a", "n", "g",
      "e", "s">>
CriticalFilesText ==
    <<" ", "c", "r", "i", "t", "i", "c", "a", "l", " ", "f", "i", "l", "e", "s", " ", "a",
      "f", "f", "e", "c", "t", "e", "d">>
LargeChangesetText ==
    <<"L", "a", "r", "g", "e", " ", "c", "h", "a", "n", "g", "e", "s", "e", "t">>
ManyFilesText ==
    <<"M", "a", "n", "y", " ", "f", "i", "l", "e", "s", " ", "t", "o", "u", "c", "h", "e",
      "d">>
StandardText ==
    <<"S", "t", "a", "n", "d", "a", "r", "d", " ", "c", "o", "d", "e", " ", "c", "h", "a",
      "n", "g", "e", "s">>
CommaSpace == <<",", " ">>

IsCriticalFileCaseSensitive(file) ==
    \/ Includes(file, KwConfig)
    \/ Includes(file, KwPackageJson)
    \/ Includes(file, KwDockerfile)
    \/ Includes(file, KwEnv)
    \/ Includes(file, KwMigration)
    \/ Includes(file, KwSchema)

\* the test of the first if statement of the loop body, on diff.file
IsCriticalFile(file) ==
    LET fileName == ToLowerCase(file)
    IN  \/ Includes(fileName, KwConfig)
        \/ Includes(fileName, KwPackageJson)
        \/ Includes(fileName, KwDockerfile)
        \/ Includes(fileName, KwEnv)
        \/ Includes(fileName, KwMigration)
        \/ Includes(fileName, KwSchema)

(***************************************************************************)
(* Inputs of the scorer: the GitDiff records of the latest commit.         *)
(***************************************************************************)
Diff(f, ins, del, ch) == [file |-> f, insertions |-> ins, deletions |-> del, changes |-> ch]

SampleFile1 == <<"s", "r", "c", "/", "a", "p", "p", ".", "t", "s">>
SampleChanges1 == <<"+", "x">>
SampleFile2 == <<"C", "o", "n", "f", "i", "g", ".", "j", "s">>
SampleChanges2 == <<"+", "x">>
SampleFile3 == <<"p", "a", "c", "k", "a", "g", "e", ".", "j", "s", "o", "n">>
SampleChanges3 == <<"+", "x">>
SampleFile4 == <<"D", "o", "c", "k", "e", "r", "f", "i", "l", "e">>
SampleChanges4 == <<"n", "e", "w", " ", "f", "i", "l", "e", " ", "m", "o", "d", "e">>
SampleFile5 == <<".", "E", "N", "V">>
SampleChanges5 == <<"+", "x">>
SampleFile6 == <<"M", "i", "g", "r", "a", "t", "i", "o", "n">>
SampleChanges6 ==
    <<"d", "e", "l", "e", "t", "e", "d", " ", "f", "i", "l", "e", " ", "m", "o", "d", "e">>
SampleFile7 == <<"s", "c", "h", "e", "m", "a">>
SampleChanges7 == <<"+", "x">>
SampleFile8 == <<"a", ".", "t", "s">>
SampleChanges8 ==
    <<"n", "e", "w", " ", "f", "i", "l", "e", " ", "m", "o", "d", "e", "\n", "+", "d", "e",
      "l", "e", "t", "e", "d", " ", "f", "i", "l", "e", " ", "m", "o", "d", "e">>
SampleFile9 == <<"b", "i", "g", ".", "t", "s">>
SampleChanges9 == <<"+", "x">>
SampleFile10 == <<"b", ".", "t", "s">>
SampleChanges10 == <<"d", "e", "l", "e", "t", "e", "d", " ", "f", "i", "l", "e", " ", "m", "o", "d", "e">>
\* a file without a changed line (a binary file)
SampleFile11 == <<"i", "c", "o", "n", ".", "p", "n", "g">>
SampleChanges11 == <<>>
\* DOCKERFILE written with the Kelvin sign in place of K
SampleFile12 == <<"D", "O", "C", "\\u212a", "E", "R", "F", "I", "L", "E">>
SampleChanges12 == <<"+", "x">>

DiffSamples ==
    { Diff(SampleFile1, 3, 2, SampleChanges1),
      Diff(SampleFile2, 0, 0, SampleChanges2),
      Diff(SampleFile3, 0, 0, SampleChanges3),
      Diff(SampleFile4, 0, 0, SampleChanges4),
      Diff(SampleFile5, 0, 0, SampleChanges5),
      Diff(SampleFile6, 60, 41, SampleChanges6),
      Diff(SampleFile7, 0, 0, SampleChanges7),
      Diff(SampleFile8, 100, 0, SampleChanges8),
      Diff(SampleFile9, 100000, 0, SampleChanges9),
      Diff(SampleFile10, 150, 60, SampleChanges10),
      Diff(SampleFile11, 0, 0, SampleChanges11),
      Diff(SampleFile12, 0, 0, SampleChanges12) }

\* an ordinary source file, used to make long change sets
FillerDiff == Diff(SampleFile1, 3, 2, SampleChanges1)
PadSizes == {0, 3, MaxPad}

DiffLists ==
    {d \o [n \in 1..pad |-> FillerDiff] : d \in SeqsUpTo(DiffSamples, MaxDiffs), pad \in PadSizes}

\* getLatestCommitDiff returns a list or throws
DiffOutcomes ==
    {[threw |-> FALSE, list |-> d] : d \in DiffLists} \cup {[threw |-> TRUE, list |-> <<>>]}

(***************************************************************************)
(* analyzeCommitImpact.                                                    *)
(***************************************************************************)
NoImpact == [isNull |-> TRUE, riskLevel |-> "", filesTouched |-> 0,
             complexityScore |-> 0, details |-> <<>>]

AccInit == [totalChanges |-> 0, criticalFiles |-> 0, complexityFactors |-> 0]

LoopBodyLargeAt100(a, diff) ==
    LET critical == IsCriticalFile(diff.file)
        large == diff.insertions + diff.deletions >= 100
        isNew == Includes(diff.changes, NewFileMarker)
        isDeleted == Includes(diff.changes, DeletedFileMarker)
    IN  [totalChanges |-> a.totalChanges + diff.insertions + diff.deletions,
         criticalFiles |-> a.criticalFiles + (IF critical THEN 1 ELSE 0),
         complexityFactors |-> a.complexityFactors
                               + (IF critical THEN 2 ELSE 0)
                               + (IF large THEN 1 ELSE 0)
                               + (IF isNew THEN 1 ELSE 0)
                               + (IF isDeleted THEN 2 ELSE 0)]

LoopBodyRunningTotal(a, diff) ==
    LET critical == IsCriticalFile(diff.file)
        large == a.totalChanges + diff.insertions + diff.deletions > 100
        isNew == Includes(diff.changes, NewFileMarker)
        isDeleted == Includes(diff.changes, DeletedFileMarker)
    IN  [totalChanges |-> a.totalChanges + diff.insertions + diff.deletions,
         criticalFiles |-> a.criticalFiles + (IF critical THEN 1 ELSE 0),
         complexityFactors |-> a.complexityFactors
                               + (IF critical THEN 2 ELSE 0)
                               + (IF large THEN 1 ELSE 0)
                               + (IF isNew THEN 1 ELSE 0)
                               + (IF isDeleted THEN 2 ELSE 0)]

\* the body of the for loop on one diff
LoopBody(a, diff) ==
    LET critical == IsCriticalFile(diff.file)
        large == diff.insertions + diff.deletions > 100
        isNew == Includes(diff.changes, NewFileMarker)
        isDeleted == Includes(diff.changes, DeletedFileMarker)
    IN  [totalChanges |-> a.totalChanges + diff.insertions + diff.deletions,
         criticalFiles |-> a.criticalFiles + (IF critical THEN 1 ELSE 0),
         complexityFactors |-> a.complexityFactors
                               + (IF critical THEN 2 ELSE 0)
                               + (IF large THEN 1 ELSE 0)
                               + (IF isNew THEN 1 ELSE 0)
                               + (IF isDeleted THEN 2 ELSE 0)]

Min(a, b) == IF a <= b THEN a ELSE b

ComplexityScoreUnclamped(totalChanges, filesTouched, complexityFactors) ==
    ((totalChanges + 10 * filesTouched) \div 50) + complexityFactors

\* Math.min(10, Math.floor(totalChanges / 50 + filesTouched / 5 + complexityFactors));
\* the sum of the two quotients is (totalChanges + 10 * filesTouched) / 50
ComplexityScore(totalChanges, filesTouched, complexityFactors) ==
    Min(10, ((totalChanges + 10 * filesTouched) \div 50) + complexityFactors)

RiskLevelFiveFiles(complexityScore, criticalFiles, filesTouched) ==
    IF complexityScore >= 7 \/ criticalFiles > 0 THEN "High"
    ELSE IF complexityScore >= 4 \/ filesTouched >= 5 THEN "Medium"
    ELSE "Low"

RiskLevelOneCritical(complexityScore, criticalFiles, filesTouched) ==
    IF complexityScore >= 7 \/ criticalFiles = 1 THEN "High"
    ELSE IF complexityScore >= 4 \/ filesTouched > 5 THEN "Medium"
    ELSE "Low"

RiskLevel(complexityScore, criticalFiles, filesTouched) ==
    IF complexityScore >= 7 \/ criticalFiles > 0 THEN "High"
    ELSE IF complexityScore >= 4 \/ filesTouched > 5 THEN "Medium"
    ELSE "Low"

DetailsLargeAt200(totalChanges, criticalFiles, filesTouched) ==
    LET parts ==
            <<NumberText(totalChanges) \o TotalLineChangesText>>
            \o (IF criticalFiles > 0
                THEN <<NumberText(criticalFiles) \o CriticalFilesText>> ELSE <<>>)
            \o (IF totalChanges >= 200 THEN <<LargeChangesetText>> ELSE <<>>)
            \o (IF filesTouched > 10 THEN <<ManyFilesText>> ELSE <<>>)
        joined == Join(SelectSeq(parts, LAMBDA x : x # <<>>), CommaSpace)
    IN  IF joined # <<>> THEN joined ELSE StandardText

DetailsZeroIsFalsy(totalChanges, criticalFiles, filesTouched) ==
    LET parts ==
            (IF totalChanges > 0
             THEN <<NumberText(totalChanges) \o TotalLineChangesText>> ELSE <<>>)
            \o (IF criticalFiles > 0
                THEN <<NumberText(criticalFiles) \o CriticalFilesText>> ELSE <<>>)
            \o (IF totalChanges > 200 THEN <<LargeChangesetText>> ELSE <<>>)
            \o (IF filesTouched > 10 THEN <<ManyFilesText>> ELSE <<>>)
        joined == Join(SelectSeq(parts, LAMBDA x : x # <<>>), CommaSpace)
    IN  IF joined # <<>> THEN joined ELSE StandardText

\* the array literal, .filter(Boolean), .join(", "), and || of the return
Details(totalChanges, criticalFiles, filesTouched) ==
    LET parts ==
            <<NumberText(totalChanges) \o TotalLineChangesText>>
            \o (IF criticalFiles > 0
                THEN <<NumberText(criticalFiles) \o CriticalFilesText>> ELSE <<>>)
            \o (IF totalChanges > 200 THEN <<LargeChangesetText>> ELSE <<>>)
            \o (IF filesTouched > 10 THEN <<ManyFilesText>> ELSE <<>>)
        joined == Join(SelectSeq(parts, LAMBDA x : x # <<>>), CommaSpace)
    IN  IF joined # <<>> THEN joined ELSE StandardText

\* lines 238-264: score, risk level, details and the returned object
BuildImpact(a, filesTouched) ==
    LET complexityScore ==
            ComplexityScore(a.totalChanges, filesTouched, a.complexityFactors)
    IN  [isNull |-> FALSE,
         riskLevel |-> RiskLevel(complexityScore, a.criticalFiles, filesTouched),
         filesTouched |-> filesTouched,
         complexityScore |-> complexityScore,
         details |-> Details(a.totalChanges, a.criticalFiles, filesTouched)]

ScoreIdle ==
    /\ diffs = [threw |-> FALSE, list |-> <<>>]
    /\ spc = "done"
    /\ k = 0
    /\ acc = AccInit
    /\ impact = NoImpact

ReturnsNullOnThrowOnly(d) == d.threw

\* getLatestCommitDiff threw (catch clause) or diffs.length === 0
ReturnsNull(d) == d.threw \/ Len(d.list) = 0

\* the call of getLatestCommitDiff, the catch clause and the empty check
AnalyzeStart ==
    /\ spc = "start"
    /\ IF ReturnsNull(diffs)
       THEN /\ impact' = NoImpact
            /\ spc' = "done"
       ELSE /\ impact' = impact
            /\ spc' = "loop"
    /\ k' = 0
    /\ acc' = AccInit
    /\ UNCHANGED <<diffs, evars, avars, nvars, cvars>>

\* one iteration of for (const diff of diffs)
AnalyzeLoop ==
    /\ spc = "loop"
    /\ k < Len(diffs.list)
    /\ acc' = LoopBody(acc, diffs.list[k + 1])
    /\ k' = k + 1
    /\ UNCHANGED <<diffs, spc, impact, evars, avars, nvars, cvars>>

\* the statements after the loop, up to the return
AnalyzeFinish ==
    /\ spc = "loop"
    /\ k = Len(diffs.list)
    /\ impact' = BuildImpact(acc, Len(diffs.list))
    /\ spc' = "done"
    /\ UNCHANGED <<diffs, k, acc, evars, avars, nvars, cvars>>

\* the loop run over a whole list of diffs
RECURSIVE FoldDiffs(_, _)
FoldDiffs(a, list) ==
    IF list = <<>> THEN a ELSE FoldDiffs(LoopBody(a, Head(list)), Tail(list))

\* the value analyzeCommitImpact returns when getLatestCommitDiff returns list
ImpactOf(list) ==
    IF Len(list) = 0 THEN NoImpact ELSE BuildImpact(FoldDiffs(AccInit, list), Len(list))

(***************************************************************************)
(* generateDeveloperReport: data.                                          *)
(***************************************************************************)

\* the array excludePatterns
ExcludePatterns ==
    <<<<"p", "a", "c", "k", "a", "g", "e", "-", "l", "o", "c", "k", ".", "j", "s", "o", "n">>,
      <<"p", "n", "p", "m", "-", "l", "o", "c", "k", ".", "y", "a", "m", "l">>,
      <<"y", "a", "r", "n", ".", "l", "o", "c", "k">>,
      <<".", "e", "n", "v">>,
      <<".", "g", "i", "t", "i", "g", "n", "o", "r", "e">>,
      <<"d", "o", "c", "k", "e", "r", "f", "i", "l", "e">>,
      <<"d", "o", "c", "k", "e", "r", "-", "c", "o", "m", "p", "o", "s", "e">>,
      <<"t", "s", "c", "o", "n", "f", "i", "g", ".", "j", "s", "o", "n">>,
      <<"n", "e", "x", "t", ".", "c", "o", "n", "f", "i", "g">>,
      <<"t", "a", "i", "l", "w", "i", "n", "d", ".", "c", "o", "n", "f", "i", "g">>,
      <<"/", "a", "p", "i", "/">>,
      <<"/", "r", "o", "u", "t", "e", ".", "t", "s">>,
      <<"/", "r", "o", "u", "t", "e", ".", "j", "s">>,
      <<"n", "o", "d", "e", "_", "m", "o", "d", "u", "l", "e", "s", "/">>,
      <<".", "g", "i", "t", "/">>,
      <<"d", "i", "s", "t", "/">>,
      <<"b", "u", "i", "l", "d", "/">>,
      <<".", "m", "a", "p">>,
      <<".", "m", "i", "n", ".", "j", "s">>,
      <<".", "m", "i", "n", ".", "c", "s", "s">>>>


\* the alternatives of the regular expression of file.replace, in order
DisplayPrefixes ==
    <<<<"s", "r", "c", "/">>,
      <<"a", "p", "p", "/">>,
      <<"c", "o", "m", "p", "o", "n", "e", "n", "t", "s", "/">>,
      <<"p", "a", "g", "e", "s", "/">>,
      <<"l", "i", "b", "/">>,
      <<"u", "t", "i", "l", "s", "/">>>>

NoRelevantFilesText ==
    <<"N", "o", " ", "r", "e", "l", "e", "v", "a", "n", "t", " ", "f", "i", "l", "e", "s",
      " ", "t", "r", "a", "c", "k", "e", "d">>

Path1 == <<"s", "r", "c", "/", "x", ".", "t", "s">>
Path2 == <<"s", "r", "c", "/", "y", ".", "t", "s">>
Path3 == <<"l", "i", "b", "/", "z", ".", "t", "s">>
Path4 == <<"w", ".", "t", "s">>
Path5 ==
    <<"p", "a", "c", "k", "a", "g", "e", "-", "l", "o", "c", "k", ".", "j", "s", "o", "n">>
Path6 == <<"D", "o", "c", "k", "e", "r", "f", "i", "l", "e">>

(***************************************************************************)
(* Inputs of generateDeveloperReport: the commits of git.log, each with    *)
(* the outcome of its two git.show calls (first loop, second loop).        *)
(***************************************************************************)
\* the text git.show prints for a list of paths
RECURSIVE ShowText(_)
ShowText(files) ==
    IF files = <<>> THEN <<>> ELSE Head(files) \o <<"\n">> \o ShowText(Tail(files))

Shown(files) == [ok |-> TRUE, text |-> ShowText(files)]
\* a listing with a line of a tab and a carriage return between its two paths
ShownWithBlankLine(a, b) ==
    [ok |-> TRUE, text |-> a \o <<"\n", "\t", "\r", "\n">> \o b \o <<"\n">>]
\* a listing whose lines end with carriage return and line feed
ShownCrLf(a) == [ok |-> TRUE, text |-> a \o <<"\r", "\n">>]
ShowFails == [ok |-> FALSE, text |-> <<>>]

Commit(author, first, second) == [author |-> author, first |-> first, second |-> second]

CommitSamples ==
    { Commit("A", Shown(<<Path1>>), Shown(<<Path1>>)),
      Commit("B", Shown(<<Path2>>), Shown(<<Path2>>)),
      Commit("A", Shown(<<Path4, Path1, Path2, Path3>>), Shown(<<Path4, Path1, Path2, Path3>>)),
      Commit("A", Shown(<<Path1, Path2, Path3>>), Shown(<<Path1, Path2, Path3>>)),
      Commit("A", Shown(<<Path5, Path6>>), Shown(<<Path5, Path6>>)),
      Commit("B", ShownWithBlankLine(Path5, Path1), ShownWithBlankLine(Path5, Path1)),
      Commit("C", ShowFails, ShowFails),
      Commit("A", ShowFails, ShowFails),
      Commit("B", ShowFails, Shown(<<Path4>>)),
      Commit("C", ShownCrLf(Path1), ShowFails) }

\* git.log returns the commits or throws
LogOutcomes ==
    {[threw |-> FALSE, all |-> c] : c \in SeqsUpTo(CommitSamples, MaxCommits)}
    \cup {[threw |-> TRUE, all |-> <<>>]}

(***************************************************************************)
(* generateDeveloperReport: operations.                                    *)
(***************************************************************************)
\* s.split(sep) for a one-character separator
RECURSIVE Split(_, _)
Split(s, sep) ==
    LET at == IndexOf(s, sep)
    IN  IF at = -1 THEN <<s>>
        ELSE <<SubSeq(s, 1, at)>> \o Split(SubSeq(s, at + 2, Len(s)), sep)

\* commitDiff.split("\n").filter((file) => file.trim() !== "")
ShowFiles(commitDiff) == SelectSeq(Split(commitDiff, "\n"), LAMBDA file : Trim(file) # <<>>)

\* files of one git.show call; a call that throws leaves nothing to add
FetchedFiles(show) == IF show.ok THEN ShowFiles(show.text) ELSE <<>>

InSeq(x, seq) == \E n \in 1..Len(seq) : seq[n] = x

\* Set.prototype.add on a Set kept in insertion order
SetAdd(set, x) == IF InSeq(x, set) THEN set ELSE Append(set, x)

RECURSIVE SetAddAll(_, _)
SetAddAll(set, xs) ==
    IF xs = <<>> THEN set ELSE SetAddAll(SetAdd(set, Head(xs)), Tail(xs))

\* position of the entry of author in a Map kept in insertion order, 0 if none
AuthorPos(stats, author) ==
    IF \E n \in 1..Len(stats) : stats[n].author = author
    THEN CHOOSE n \in 1..Len(stats) : stats[n].author = author
    ELSE 0

\* lines 289-296: the entry of the author is made when it is missing, and
\* its commits are counted, before the files of the commit are fetched
CountCommit(stats, author) ==
    LET known == IF AuthorPos(stats, author) = 0
                 THEN Append(stats, [author |-> author, commits |-> 0, files |-> <<>>])
                 ELSE stats
        at == AuthorPos(known, author)
    IN  [known EXCEPT ![at] = [author |-> known[at].author,
                               commits |-> known[at].commits + 1,
                               files |-> known[at].files]]

AfterFetchCountsRepeats(stats, author, show) ==
    LET at == AuthorPos(stats, author)
    IN  [stats EXCEPT ![at] = [author |-> stats[at].author,
                               commits |-> stats[at].commits,
                               files |-> stats[at].files \o FetchedFiles(show)]]

AfterFetchDropsCommit(stats, author, show) ==
    LET at == AuthorPos(stats, author)
    IN  [stats EXCEPT ![at] = [author |-> stats[at].author,
                               commits |-> stats[at].commits - (IF show.ok THEN 0 ELSE 1),
                               files |-> SetAddAll(stats[at].files, FetchedFiles(show))]]

\* lines 299-306: the try statement around git.show; the catch clause leaves
\* the entry of the author as it is
AfterFetch(stats, author, show) ==
    LET at == AuthorPos(stats, author)
    IN  [stats EXCEPT ![at] = [author |-> stats[at].author,
                               commits |-> stats[at].commits,
                               files |-> SetAddAll(stats[at].files, FetchedFiles(show))]]

\* the body of the first for loop (lines 288-312) on one commit
FirstLoopBody(stats, commit) ==
    AfterFetch(CountCommit(stats, commit.author), commit.author, commit.first)

RECURSIVE FirstLoop(_, _)
FirstLoop(stats, all) ==
    IF all = <<>> THEN stats ELSE FirstLoop(FirstLoopBody(stats, Head(all)), Tail(all))

\* fileFrequency.set(file, (fileFrequency.get(file) || 0) + 1) on a Map kept
\* in insertion order
CountFile(freq, file) ==
    IF \E n \in 1..Len(freq) : freq[n].file = file
    THEN [n \in 1..Len(freq) |->
             IF freq[n].file = file
             THEN [file |-> file, count |-> freq[n].count + 1] ELSE freq[n]]
    ELSE Append(freq, [file |-> file, count |-> 1])

RECURSIVE CountFiles(_, _)
CountFiles(freq, files) ==
    IF files = <<>> THEN freq ELSE CountFiles(CountFile(freq, Head(files)), Tail(files))

\* the body of the inner for loop (lines 325-336) on one commit
ScanBody(freq, author, commit) ==
    IF commit.author = author THEN CountFiles(freq, FetchedFiles(commit.second)) ELSE freq

\* the inner for loop (lines 324-337) for one author
RECURSIVE FileFrequency(_, _, _)
FileFrequency(freq, author, all) ==
    IF all = <<>> THEN freq
    ELSE FileFrequency(ScanBody(freq, author, Head(all)), author, Tail(all))

IsExcludedCaseSensitive(file) ==
    \E n \in 1..Len(ExcludePatterns) : Includes(file, ExcludePatterns[n])

\* excludePatterns.some((pattern) => fileName.includes(pattern))
IsExcluded(file) ==
    LET fileName == ToLowerCase(file)
    IN  \E n \in 1..Len(ExcludePatterns) : Includes(fileName, ExcludePatterns[n])

SortUnsorted(seq, key) == seq

SortTiesReversed(seq, key) ==
    LET Before(m, n) ==
            \/ seq[m][key] > seq[n][key]
            \/ seq[m][key] = seq[n][key] /\ m > n
        Rank(n) == Cardinality({m \in 1..Len(seq) : Before(m, n)}) + 1
    IN  [r \in 1..Len(seq) |-> seq[CHOOSE n \in 1..Len(seq) : Rank(n) = r]]

\* Array.prototype.sort with a comparator (a, b) => b[key] - a[key]: the
\* sort is stable, so an element comes after those of a larger key and after
\* the earlier ones of its own key
SortDesc(seq, key) ==
    LET Before(m, n) ==
            \/ seq[m][key] > seq[n][key]
            \/ seq[m][key] = seq[n][key] /\ m < n
        Rank(n) == Cardinality({m \in 1..Len(seq) : Before(m, n)}) + 1
    IN  [r \in 1..Len(seq) |-> seq[CHOOSE n \in 1..Len(seq) : Rank(n) = r]]

\* the keys of the two sorts (lines 371 and 387)
CountKey == "count"
CommitsKey == "commits"

\* file.replace(/^(src\/|app\/|components\/|pages\/|lib\/|utils\/)?/, "")
DisplayName(file) ==
    IF \E n \in 1..Len(DisplayPrefixes) : StartsWith(file, DisplayPrefixes[n])
    THEN LET n == CHOOSE n \in 1..Len(DisplayPrefixes) :
                      /\ StartsWith(file, DisplayPrefixes[n])
                      /\ \A m \in 1..(n - 1) : ~StartsWith(file, DisplayPrefixes[m])
         IN  SubSeq(file, Len(DisplayPrefixes[n]) + 1, Len(file))
    ELSE file

\* .slice(0, 3)
SliceThree(entries) == SubSeq(entries, 1, Min(3, Len(entries)))

\* filteredFiles.sort(...).slice(0, 3): the entries the hotspots are made of
TopEntriesOf(freq) ==
    LET filteredFiles == SelectSeq(freq, LAMBDA entry : ~IsExcluded(entry.file))
    IN  SliceThree(SortDesc(filteredFiles, CountKey))

\* the same entries, from the commits of git.log
TopEntries(author, all) == TopEntriesOf(FileFrequency(<<>>, author, all))

HotspotsNoSentinel(top) == [n \in 1..Len(top) |-> DisplayName(top[n].file)]

\* .map(([file]) => ...) and the sentinel of line 382
Hotspots(top) ==
    IF Len(top) > 0 THEN [n \in 1..Len(top) |-> DisplayName(top[n].file)]
    ELSE <<NoRelevantFilesText>>

\* the object of reports.push({...}) for one entry of authorStats
ReportEntry(stat, freq) ==
    [author |-> stat.author,
     commits |-> stat.commits,
     filesChanged |-> Len(stat.files),
     hotspots |-> Hotspots(TopEntriesOf(freq))]

\* the same object, from the commits of git.log
ReportFor(stat, all) == ReportEntry(stat, FileFrequency(<<>>, stat.author, all))

\* the value generateDeveloperReport returns when git.log returns all
ReportOf(all) ==
    LET stats == FirstLoop(<<>>, all)
    IN  SortDesc([n \in 1..Len(stats) |-> ReportFor(stats[n], all)], CommitsKey)

ReportIdle ==
    /\ log = [threw |-> FALSE, all |-> <<>>]
    /\ rpc = "done"
    /\ authorStats = <<>>
    /\ processedCommits = 0
    /\ fileFrequency = <<>>
    /\ scanned = 0
    /\ tops = <<>>
    /\ reports = <<>>
    /\ returned = <<>>

\* git.log, its catch clause and the check of log.all.length
ReportStart ==
    /\ rpc = "start"
    /\ rpc' = IF log.threw \/ Len(log.all) = 0 THEN "done" ELSE "loop"
    /\ authorStats' = <<>>
    /\ processedCommits' = 0
    /\ fileFrequency' = <<>>
    /\ scanned' = 0
    /\ tops' = <<>>
    /\ reports' = <<>>
    /\ returned' = <<>>
    /\ UNCHANGED <<log, evars, svars, nvars, cvars>>

\* one iteration of the first for loop up to the call of git.show
ReportCount ==
    /\ rpc = "loop"
    /\ processedCommits < Len(log.all)
    /\ authorStats' = CountCommit(authorStats, log.all[processedCommits + 1].author)
    /\ rpc' = "show"
    /\ UNCHANGED <<log, processedCommits, fileFrequency, scanned, tops, reports, returned,
                   evars, svars, nvars, cvars>>

\* the rest of the iteration, when git.show has returned or thrown
ReportFetch ==
    /\ rpc = "show"
    /\ LET commit == log.all[processedCommits + 1]
       IN  authorStats' = AfterFetch(authorStats, commit.author, commit.first)
    /\ processedCommits' = processedCommits + 1
    /\ rpc' = "loop"
    /\ UNCHANGED <<log, fileFrequency, scanned, tops, reports, returned,
                   evars, svars, nvars, cvars>>

\* one iteration of the inner for loop, for the author whose report is next
ReportScan ==
    /\ rpc = "loop"
    /\ processedCommits = Len(log.all)
    /\ Len(reports) < Len(authorStats)
    /\ scanned < Len(log.all)
    /\ fileFrequency' = ScanBody(fileFrequency, authorStats[Len(reports) + 1].author,
                                 log.all[scanned + 1])
    /\ scanned' = scanned + 1
    /\ UNCHANGED <<log, rpc, authorStats, processedCommits, tops, reports, returned,
                   evars, svars, nvars, cvars>>

\* the rest of one iteration of the loop over authorStats.entries(): the
\* filter, the sort, the slice and reports.push
ReportAuthor ==
    /\ rpc = "loop"
    /\ processedCommits = Len(log.all)
    /\ Len(reports) < Len(authorStats)
    /\ scanned = Len(log.all)
    /\ tops' = Append(tops, TopEntriesOf(fileFrequency))
    /\ reports' = Append(reports, ReportEntry(authorStats[Len(reports) + 1], fileFrequency))
    /\ fileFrequency' = <<>>
    /\ scanned' = 0
    /\ UNCHANGED <<log, rpc, authorStats, processedCommits, returned, evars, svars, nvars, cvars>>

\* return reports.sort(...): the sort reorders reports itself
ReportReturn ==
    /\ rpc = "loop"
    /\ processedCommits = Len(log.all)
    /\ Len(reports) = Len(authorStats)
    /\ reports' = SortDesc(reports, CommitsKey)
    /\ returned' = SortDesc(reports, CommitsKey)
    /\ rpc' = "done"
    /\ UNCHANGED <<log, authorStats, processedCommits, fileFrequency, scanned, tops,
                   evars, svars, nvars, cvars>>

(***************************************************************************)
(* Response normalizer: validateSuggestion (commit-suggestion shape) and   *)
(* the checks of generateTestSuiteForFile (test-suite shape).  A JavaScript *)
(* value is a record [t, v]: t is its type, v its content.                 *)
(***************************************************************************)
Undefined == [t |-> "undefined", v |-> <<>>]
StringValue(x) == [t |-> "string", v |-> x]

\* COMMIT_TYPES.map((t) => t.type)
ValidTypes ==
    <<"feat", "fix", "docs", "style", "refactor", "perf", "test", "build", "ci", "chore",
      "revert">>

DescriptionLimit == 50
DescriptionKept == 47
Ellipsis == <<".", ".", ".">>

\* description.slice(0, n) for 0 <= n
SliceHead(x, n) == SubSeq(x, 1, Min(n, Len(x)))

NormalizeTypeKeepsAll(type) == IF type.t = "string" THEN type ELSE StringValue("chore")

\* lines 983-986: the type after the first if statement
NormalizeType(type) ==
    IF type.t = "string" /\ InSeq(type.v, ValidTypes) THEN type ELSE StringValue("chore")

NormalizeDescriptionLong(description) ==
    IF Len(description.v) > DescriptionLimit
    THEN StringValue(SliceHead(description.v, DescriptionLimit) \o Ellipsis)
    ELSE description

\* lines 989-991: the description after the second if statement, for a
\* description that is a string
NormalizeDescription(description) ==
    IF Len(description.v) > DescriptionLimit
    THEN StringValue(SliceHead(description.v, DescriptionKept) \o Ellipsis)
    ELSE description

\* inputs of validateSuggestion
TypeInputs ==
    {StringValue(ValidTypes[n]) : n \in 1..Len(ValidTypes)}
    \cup {StringValue("feature"), StringValue("Feat"), StringValue(""), Undefined}

DescriptionOfLength(n) == [j \in 1..n |-> <<"a", "b", "c">>[(j % 3) + 1]]

DescriptionInputs ==
    {StringValue(DescriptionOfLength(n)) : n \in {0, 1, 47, 49, 50, 51, 52, MaxDescription}}
    \cup {Undefined}

SuggestionInputs ==
    {[type |-> t, description |-> d] : t \in TypeInputs, d \in DescriptionInputs}

NoSuggestion == [type |-> Undefined, description |-> Undefined]
NotValidated == [threw |-> FALSE, returned |-> FALSE, value |-> NoSuggestion]

\* a parsed test suite: t is the type of the parsed value, testCases the
\* type of its testCases property and, for an array, its length
ParsedValue(t, tc, n) == [t |-> t, testCases |-> tc, length |-> n]

ParsedInputs ==
    { ParsedValue("null", "undefined", 0),
      ParsedValue("number", "undefined", 0),
      ParsedValue("array", "undefined", 0),
      ParsedValue("object", "undefined", 0),
      ParsedValue("object", "null", 0),
      ParsedValue("object", "emptyString", 0),
      ParsedValue("object", "string", 0),
      ParsedValue("object", "object", 0),
      ParsedValue("object", "array", 0),
      ParsedValue("object", "array", 1),
      ParsedValue("object", "array", 3) }

\* ai.generateTestCases throws, JSON.parse throws, or JSON.parse returns a value
ResponseInputs ==
    {[kind |-> "value", value |-> p] : p \in ParsedInputs}
    \cup {[kind |-> "aiError", value |-> ParsedValue("undefined", "undefined", 0)],
          [kind |-> "malformed", value |-> ParsedValue("undefined", "undefined", 0)]}

NoResponse == [kind |-> "none", value |-> ParsedValue("undefined", "undefined", 0)]
NullSuite == [isNull |-> TRUE, value |-> ParsedValue("undefined", "undefined", 0)]

LoggedEmpty == "AI returned empty test cases"
LoggedFailed == "Failed to generate tests"

\* reading testSuite.testCases throws a TypeError on null
ReadThrows(p) == p.t = "null"

\* !testSuite.testCases || !Array.isArray(testSuite.testCases) ||
\* testSuite.testCases.length === 0
IsEmptySuite(p) ==
    LET tc == IF p.t = "object" THEN p.testCases ELSE "undefined"
    IN  \/ tc \in {"undefined", "null", "emptyString"}
        \/ tc # "array"
        \/ p.length = 0

NormalizeIdle ==
    /\ shape = "none"
    /\ npc = "done"
    /\ given = NoSuggestion
    /\ suggestion = NoSuggestion
    /\ validated = NotValidated
    /\ response = NoResponse
    /\ testSuite = NullSuite
    /\ logged = ""

\* validateSuggestion: it assigns to the fields of the object it was given;
\* suggestion.description.length throws when description is undefined
ValidateSuggestion ==
    /\ shape = "commit-suggestion"
    /\ npc = "start"
    /\ LET type == NormalizeType(suggestion.type)
       IN  IF suggestion.description.t = "undefined"
           THEN /\ suggestion' = [type |-> type, description |-> suggestion.description]
                /\ validated' = [threw |-> TRUE, returned |-> FALSE, value |-> NoSuggestion]
           ELSE LET after == [type |-> type,
                              description |-> NormalizeDescription(suggestion.description)]
                IN  /\ suggestion' = after
                    /\ validated' = [threw |-> FALSE, returned |-> TRUE, value |-> after]
    /\ npc' = "done"
    /\ UNCHANGED <<shape, given, response, testSuite, logged, evars, svars, avars, cvars>>

\* lines 125-136 of generateTestSuiteForFile
GenerateTestSuite ==
    /\ shape = "test-suite"
    /\ npc = "start"
    /\ IF response.kind \in {"aiError", "malformed"} \/ ReadThrows(response.value)
       THEN /\ logged' = LoggedFailed
            /\ testSuite' = NullSuite
       ELSE IF IsEmptySuite(response.value)
       THEN /\ logged' = LoggedEmpty
            /\ testSuite' = NullSuite
       ELSE /\ logged' = ""
            /\ testSuite' = [isNull |-> FALSE, value |-> response.value]
    /\ npc' = "done"
    /\ UNCHANGED <<shape, given, suggestion, validated, response, evars, svars, avars, cvars>>

(***************************************************************************)
(* The command line: the setup command and the main action, with the key   *)
(* lookups of ConfigService and of the AIService constructor.              *)
(***************************************************************************)
\* the options of one invocation; early is the analysis option given, if any
Options(early, push, commit, ask, dryRun) ==
    [test |-> early = "test", impact |-> early = "impact", summary |-> early = "summary",
     report |-> early = "report", duplicate |-> early = "duplicate",
     review |-> early = "review", log |-> early = "log",
     push |-> push, commit |-> commit, ask |-> ask, dryRun |-> dryRun]

EarlyOptions == {"none", "test", "impact", "summary", "report", "duplicate", "review", "log"}

OptionSets ==
    {Options(early, push, commit, ask, dryRun) :
        early \in EarlyOptions, push \in BOOLEAN, commit \in BOOLEAN, ask \in BOOLEAN,
        dryRun \in BOOLEAN}

\* Object.keys(options).length > 0
HasOptions(o) ==
    \/ o.test \/ o.impact \/ o.summary \/ o.report \/ o.duplicate \/ o.review \/ o.log
    \/ o.push \/ o.commit \/ o.ask \/ o.dryRun

\* what a config file may hold: no file, a file with an apiKey, a file that
\* is not JSON, a JSON file without apiKey
ConfigStates == {"absent", "key", "corrupt", "empty"}

\* ConfigService.getApiKey() !== null: the environment variable, else the
\* apiKey of ~/.fynn/config.json
HasApiKey(env, fynn) == env \/ fynn = "key"

\* the AIService constructor finds a key: the environment variable, else the
\* apiKey of ~/.yourcli/config.json
ConstructorFindsKey(env, yourcli) == env \/ yourcli = "key"

\* lines 85-92
RequiresApiKey(o) ==
    \/ o.test \/ o.summary \/ o.duplicate \/ o.review \/ o.log \/ o.push
    \/ (~o.impact /\ ~o.report)

\* the first of the if statements of lines 116-387 whose option is set
EarlyBranch(o) ==
    IF o.test THEN "test"
    ELSE IF o.impact THEN "impact"
    ELSE IF o.summary THEN "summary"
    ELSE IF o.report THEN "report"
    ELSE IF o.duplicate THEN "duplicate"
    ELSE IF o.review THEN "review"
    ELSE IF o.log THEN "log"
    ELSE "none"

\* the branches that construct an AIService (test does it in TestService)
ConstructsAIService(branch) == branch \in {"test", "summary", "duplicate", "review", "log"}

DryRunReturnsUnlessPush(o) == o.dryRun /\ ~o.push

\* if (options.dryRun) { ...; return; }
DryRunReturns(o) == o.dryRun

\* what GitService.push resolves to
PushResults == {"success", "needsUpstream", "failed"}

\* GitService.push may also reject: git.status of getCurrentBranch throws
\* after the push failed for want of an upstream branch
PushOutcomes == PushResults \cup {"throws"}

CliIdle ==
    /\ options = Options("none", FALSE, FALSE, FALSE, FALSE)
    /\ keyEnv = FALSE
    /\ fynnConfig = "absent"
    /\ yourcliConfig = "absent"
    /\ cpc = "exited"
    /\ gitCalls = {}
    /\ ended = "no"

\* fynn setup: the prompt accepts a key and saveApiKey writes ~/.fynn/config.json
CliSetup ==
    /\ cpc = "shell"
    /\ fynnConfig' = "key"
    /\ UNCHANGED <<options, keyEnv, yourcliConfig, cpc, gitCalls, ended,
                   evars, svars, avars, nvars>>

\* the setup command of src/cli.ts: the prompt accepts a key that is not
\* blank and writeFileSync replaces ~/.yourcli/config.json by {apiKey}; the
\* export line it may append to the shell profile reaches only later shells
SetupYourcli ==
    /\ cpc = "shell"
    /\ yourcliConfig' = "key"
    /\ UNCHANGED <<options, keyEnv, fynnConfig, cpc, gitCalls, ended,
                   evars, svars, avars, nvars>>

\* ConfigService.deleteApiKey: the file ~/.fynn/config.json is removed when
\* it exists
DeleteApiKey ==
    /\ cpc = "shell"
    /\ fynnConfig' = "absent"
    /\ UNCHANGED <<options, keyEnv, yourcliConfig, cpc, gitCalls, ended,
                   evars, svars, avars, nvars>>

\* the main action up to the end of the API key check
MainStart ==
    /\ cpc = "shell"
    /\ IF ~HasOptions(options)
       THEN cpc' = "exited" /\ ended' = "help"
       ELSE \E isRepo \in BOOLEAN :
                IF ~isRepo
                THEN cpc' = "exited" /\ ended' = "exit: not a git repository"
                ELSE IF RequiresApiKey(options) /\ ~HasApiKey(keyEnv, fynnConfig)
                THEN cpc' = "exited" /\ ended' = "exit: OpenAI API key not found"
                ELSE cpc' = "dispatch" /\ ended' = ended
    /\ UNCHANGED <<options, keyEnv, fynnConfig, yourcliConfig, gitCalls,
                   evars, svars, avars, nvars>>

\* one of the analysis branches (lines 116-387): each returns or exits
MainAnalysis ==
    /\ cpc = "dispatch"
    /\ EarlyBranch(options) # "none"
    /\ IF /\ ConstructsAIService(EarlyBranch(options))
          /\ ~ConstructorFindsKey(keyEnv, yourcliConfig)
       THEN ended' = "exit: No OpenAI API key found"
       ELSE \E ok \in BOOLEAN : ended' = IF ok THEN "returned" ELSE "exit: failed"
    /\ cpc' = "exited"
    /\ UNCHANGED <<options, keyEnv, fynnConfig, yourcliConfig, gitCalls,
                   evars, svars, avars, nvars>>

\* the catch clause of the main action (lines 662-668)
Fails ==
    /\ cpc' = "exited"
    /\ ended' = "exit: failed"

\* lines 389-427: the --push workflow up to the call of git.stageAllChanges
\* or of git.push; a git.status that throws ends in the catch clause
MainStagePush ==
    /\ cpc = "dispatch"
    /\ EarlyBranch(options) = "none"
    /\ options.push
    /\ \E statusRead \in BOOLEAN, hasUncommittedChanges \in BOOLEAN, staged \in 0..1,
          changed \in 0..1, hasCommitsToPush \in BOOLEAN :
           IF ~statusRead
           THEN Fails /\ gitCalls' = gitCalls
           ELSE IF hasUncommittedChanges \/ staged > 0
           THEN IF staged = 0 /\ changed = 0
                THEN /\ cpc' = "exited"
                     /\ ended' = "exit: no changes"
                     /\ gitCalls' = gitCalls
                ELSE IF staged = 0
                THEN /\ cpc' = "staging for push"
                     /\ ended' = ended
                     /\ gitCalls' = gitCalls \cup {"stageAllChanges"}
                ELSE /\ cpc' = "generate"
                     /\ ended' = ended
                     /\ gitCalls' = gitCalls
           ELSE IF hasCommitsToPush
                THEN /\ cpc' = "pushing existing"
                     /\ ended' = ended
                     /\ gitCalls' = gitCalls \cup {"push"}
                ELSE /\ cpc' = "exited"
                     /\ ended' = "returned"
                     /\ gitCalls' = gitCalls
    /\ UNCHANGED <<options, keyEnv, fynnConfig, yourcliConfig, evars, svars, avars, nvars>>

\* lines 411-414: git.stageAllChanges has returned or thrown
MainStagedForPush ==
    /\ cpc = "staging for push"
    /\ \E staged \in BOOLEAN :
           IF staged THEN cpc' = "generate" /\ ended' = ended ELSE Fails
    /\ UNCHANGED <<options, keyEnv, fynnConfig, yourcliConfig, gitCalls,
                   evars, svars, avars, nvars>>

\* what the confirm prompt of inquirer settles to: an answer, or a rejection
\* (the prompt cannot be rendered or is closed), which the catch clause takes
PromptOutcomes == {"yes", "no", "rejects"}

\* what follows a call of git.push, up to the call of git.pushWithUpstream;
\* upstream is the position of that call
AfterPush(upstream) ==
    \E pushResult \in PushOutcomes, setupUpstream \in PromptOutcomes :
        IF pushResult = "throws"
        THEN Fails /\ gitCalls' = gitCalls
        ELSE IF pushResult = "needsUpstream" /\ options.ask /\ setupUpstream = "rejects"
        THEN Fails /\ gitCalls' = gitCalls
        ELSE IF pushResult = "needsUpstream" /\ (options.ask => setupUpstream = "yes")
        THEN /\ cpc' = upstream
             /\ ended' = ended
             /\ gitCalls' = gitCalls \cup {"pushWithUpstream"}
        ELSE /\ cpc' = "exited"
             /\ ended' = "returned"
             /\ gitCalls' = gitCalls

\* lines 427-487: git.push of the commits that exist has returned or thrown
MainPushedExisting ==
    /\ cpc = "pushing existing"
    /\ AfterPush("upstream existing")
    /\ UNCHANGED <<options, keyEnv, fynnConfig, yourcliConfig, evars, svars, avars, nvars>>

\* lines 464-476: git.pushWithUpstream has returned or thrown; the action
\* returns in both cases
MainUpstreamExisting ==
    /\ cpc = "upstream existing"
    /\ cpc' = "exited"
    /\ ended' = "returned"
    /\ UNCHANGED <<options, keyEnv, fynnConfig, yourcliConfig, gitCalls,
                   evars, svars, avars, nvars>>

\* lines 495-505 and 509-518: the staging without --push, up to the call of
\* git.stageAllChanges
MainStage ==
    /\ cpc = "dispatch"
    /\ EarlyBranch(options) = "none"
    /\ ~options.push
    /\ \E statusRead \in BOOLEAN, staged \in 0..1, changed \in 0..1 :
           IF ~statusRead
           THEN Fails /\ gitCalls' = gitCalls
           ELSE IF staged = 0 /\ options.commit
           THEN IF changed = 0
                THEN /\ cpc' = "exited"
                     /\ ended' = "exit: no changes"
                     /\ gitCalls' = gitCalls
                ELSE /\ cpc' = "staging"
                     /\ ended' = ended
                     /\ gitCalls' = gitCalls \cup {"stageAllChanges"}
           ELSE /\ gitCalls' = gitCalls
                /\ IF staged = 0
                   THEN cpc' = "exited" /\ ended' = "exit: no staged changes"
                   ELSE cpc' = "generate" /\ ended' = ended
    /\ UNCHANGED <<options, keyEnv, fynnConfig, yourcliConfig, evars, svars, avars, nvars>>

\* lines 505-518: git.stageAllChanges has returned or thrown, and the staged
\* files are read again
MainStaged ==
    /\ cpc = "staging"
    /\ \E staged \in BOOLEAN, stagedAfter \in 0..1 :
           IF ~staged
           THEN Fails
           ELSE IF stagedAfter = 0
           THEN cpc' = "exited" /\ ended' = "exit: no staged changes"
           ELSE cpc' = "generate" /\ ended' = ended
    /\ UNCHANGED <<options, keyEnv, fynnConfig, yourcliConfig, gitCalls,
                   evars, svars, avars, nvars>>

\* lines 520-552: new AIService(), the commit message and the dry-run return
MainGenerate ==
    /\ cpc = "generate"
    /\ \E diffRead \in BOOLEAN, generated \in BOOLEAN :
           IF ~diffRead
           THEN cpc' = "exited" /\ ended' = "exit: failed"
           ELSE IF ~ConstructorFindsKey(keyEnv, yourcliConfig)
           THEN cpc' = "exited" /\ ended' = "exit: No OpenAI API key found"
           ELSE IF ~generated
                THEN cpc' = "exited" /\ ended' = "exit: failed"
                ELSE IF DryRunReturns(options)
                THEN cpc' = "exited" /\ ended' = "dry run"
                ELSE /\ cpc' = IF options.ask THEN "confirm" ELSE "commit"
                     /\ ended' = ended
    /\ UNCHANGED <<options, keyEnv, fynnConfig, yourcliConfig, gitCalls,
                   evars, svars, avars, nvars>>

\* lines 556-582: the prompt of --ask; when inquirer.prompt rejects, the
\* catch clause ends the process
MainConfirm ==
    /\ cpc = "confirm"
    /\ \E action \in {"commit", "edit", "cancel", "rejects"} :
           IF action = "rejects"
           THEN Fails
           ELSE IF action = "cancel"
           THEN cpc' = "exited" /\ ended' = "returned"
           ELSE cpc' = "commit" /\ ended' = ended
    /\ UNCHANGED <<options, keyEnv, fynnConfig, yourcliConfig, gitCalls,
                   evars, svars, avars, nvars>>

\* lines 584-585: the call of git.commit
MainCommit ==
    /\ cpc = "commit"
    /\ gitCalls' = gitCalls \cup {"commit"}
    /\ cpc' = "committing"
    /\ UNCHANGED <<options, keyEnv, fynnConfig, yourcliConfig, ended,
                   evars, svars, avars, nvars>>

\* lines 585-591: git.commit has returned or thrown; with --push, the call
\* of git.push
MainCommitted ==
    /\ cpc = "committing"
    /\ \E committed \in BOOLEAN :
           IF ~committed
           THEN Fails /\ gitCalls' = gitCalls
           ELSE IF options.push
           THEN /\ cpc' = "pushing committed"
                /\ ended' = ended
                /\ gitCalls' = gitCalls \cup {"push"}
           ELSE /\ cpc' = "exited"
                /\ ended' = "returned"
                /\ gitCalls' = gitCalls
    /\ UNCHANGED <<options, keyEnv, fynnConfig, yourcliConfig, evars, svars, avars, nvars>>

\* lines 591-660: git.push of the new commit has returned or thrown
MainPushedCommitted ==
    /\ cpc = "pushing committed"
    /\ AfterPush("upstream committed")
    /\ UNCHANGED <<options, keyEnv, fynnConfig, yourcliConfig, evars, svars, avars, nvars>>

\* lines 613-624 and 641-652: git.pushWithUpstream has returned or thrown;
\* the action ends in both cases
MainUpstreamCommitted ==
    /\ cpc = "upstream committed"
    /\ cpc' = "exited"
    /\ ended' = "returned"
    /\ UNCHANGED <<options, keyEnv, fynnConfig, yourcliConfig, gitCalls,
                   evars, svars, avars, nvars>>

InitExtract ==
    /\ input \in Inputs
    /\ pc = "start"
    /\ cleaned = <<>>
    /\ startIdx = -1
    /\ openChar = ""
    /\ closeChar = ""
    /\ i = 0
    /\ scan = ScanInit
    /\ extracted = Null
    /\ result = Str(<<>>)
    /\ ScoreIdle
    /\ ReportIdle
    /\ NormalizeIdle
    /\ CliIdle

NextExtract == Clean \/ ScanStep \/ ScanExhausted

SpecExtract == InitExtract /\ [][NextExtract]_vars

InitScore ==
    /\ diffs \in DiffOutcomes
    /\ spc = "start"
    /\ k = 0
    /\ acc = AccInit
    /\ impact = NoImpact
    /\ ExtractIdle
    /\ ReportIdle
    /\ NormalizeIdle
    /\ CliIdle

NextScore == AnalyzeStart \/ AnalyzeLoop \/ AnalyzeFinish

SpecScore == InitScore /\ [][NextScore]_vars

InitReport ==
    /\ log \in LogOutcomes
    /\ rpc = "start"
    /\ authorStats = <<>>
    /\ processedCommits = 0
    /\ fileFrequency = <<>>
    /\ scanned = 0
    /\ tops = <<>>
    /\ reports = <<>>
    /\ returned = <<>>
    /\ ExtractIdle
    /\ ScoreIdle
    /\ NormalizeIdle
    /\ CliIdle

NextReport ==
    ReportStart \/ ReportCount \/ ReportFetch \/ ReportScan \/ ReportAuthor \/ ReportReturn

SpecReport == InitReport /\ [][NextReport]_vars

InitSuggestion ==
    /\ shape = "commit-suggestion"
    /\ given \in SuggestionInputs
    /\ suggestion = given
    /\ response = NoResponse

InitTestSuite ==
    /\ shape = "test-suite"
    /\ given = NoSuggestion
    /\ suggestion = NoSuggestion
    /\ response \in ResponseInputs

InitNormalize ==
    /\ InitSuggestion \/ InitTestSuite
    /\ npc = "start"
    /\ validated = NotValidated
    /\ testSuite = NullSuite
    /\ logged = ""
    /\ ExtractIdle
    /\ ScoreIdle
    /\ ReportIdle
    /\ CliIdle

NextNormalize == ValidateSuggestion \/ GenerateTestSuite

SpecNormalize == InitNormalize /\ [][NextNormalize]_vars

InitCli ==
    /\ options \in OptionSets
    /\ keyEnv \in BOOLEAN
    /\ fynnConfig \in ConfigStates
    /\ yourcliConfig \in ConfigStates
    /\ cpc = "shell"
    /\ gitCalls = {}
    /\ ended = "no"
    /\ ExtractIdle
    /\ ScoreIdle
    /\ ReportIdle
    /\ NormalizeIdle

NextCli ==
    \/ CliSetup \/ SetupYourcli \/ DeleteApiKey \/ MainStart \/ MainAnalysis
    \/ MainStagePush \/ MainStagedForPush \/ MainPushedExisting \/ MainUpstreamExisting
    \/ MainStage \/ MainStaged \/ MainGenerate \/ MainConfirm
    \/ MainCommit \/ MainCommitted \/ MainPushedCommitted \/ MainUpstreamCommitted

SpecCli == InitCli /\ [][NextCli]_vars

Spec ==
    /\ InitExtract \/ InitScore \/ InitReport \/ InitNormalize \/ InitCli
    /\ [][NextExtract \/ NextScore \/ NextReport \/ NextNormalize \/ NextCli]_vars

(***************************************************************************)
(* Reference definitions for the extractor claims.  They are written from  *)
(* the structure of the input, not from the loop of extractBalancedJson.   *)
(***************************************************************************)
\* the scan began at the first character of the embedded object
ObjAligned ==
    /\ input.obj # <<>>
    /\ pc \in {"scan", "done"}
    /\ startIdx >= 0
    /\ startIdx + Len(input.obj) <= Len(cleaned)
    /\ Substring(cleaned, startIdx, startIdx + Len(input.obj)) = Chars(input.obj)

\* nesting depth after the first n characters of object o, counting only
\* brackets of the expected kind that stand outside string content
RECURSIVE TagDepth(_, _, _, _)
TagDepth(o, n, open, close) ==
    IF n = 0 THEN 0
    ELSE TagDepth(o, n - 1, open, close)
         + (IF ~o[n].s /\ o[n].c = open THEN 1
            ELSE IF ~o[n].s /\ o[n].c = close THEN -1 ELSE 0)

HasStringBrackets(o) ==
    /\ \E n \in 1..Len(o) : o[n].s /\ o[n].c \in {"{", "}", "[", "]"}
    /\ \E n \in 1..(Len(o) - 1) : o[n].s /\ o[n].c = "\\" /\ o[n + 1].c = "\""

\* Normal / InString / Escaped automaton over text[start..j] (0-based,
\* inclusive); d is the bracket depth
RECURSIVE RefScan(_, _, _, _, _)
RefScan(text, start, j, open, close) ==
    IF j < start THEN [mode |-> "Normal", back |-> "Normal", d |-> 0]
    ELSE LET p == RefScan(text, start, j - 1, open, close)
             ch == text[j + 1]
         IN  CASE p.mode = "Escaped" -> [mode |-> p.back, back |-> p.back, d |-> p.d]
               [] p.mode # "Escaped" /\ ch = "\\" ->
                      [mode |-> "Escaped", back |-> p.mode, d |-> p.d]
               [] p.mode = "Normal" /\ ch = "\"" ->
                      [mode |-> "InString", back |-> "InString", d |-> p.d]
               [] p.mode = "InString" /\ ch = "\"" ->
                      [mode |-> "Normal", back |-> "Normal", d |-> p.d]
               [] p.mode = "Normal" /\ ch \notin {"\\", "\""} ->
                      [mode |-> "Normal", back |-> "Normal",
                       d |-> p.d + (IF ch = open THEN 1 ELSE IF ch = close THEN -1 ELSE 0)]
               [] OTHER -> p

RefDepth(text, start, j, open, close) == RefScan(text, start, j, open, close).d

(***************************************************************************)
(* Claims about the extractor.                                             *)
(***************************************************************************)
\* C1: for a text that is one well-formed JSON object inside prose and/or
\* fence markers, cleanJsonResponse returns exactly the text of the object.
C1_ReturnsEmbeddedObject ==
    (pc = "done" /\ input.obj # <<>> /\ input.post \in ProseSuffixes)
        => result = Str(Chars(input.obj))

\* C2: when the text has no bracket or the scan ends before the depth is
\* back at zero, the caller gets the not-found outcome and no text.
C2_NotFoundWhenUnbalanced ==
    (pc = "done" /\ extracted.isNull) => result.isNull

\* C3: brackets and escaped quotes inside a string value never change the
\* depth: while the object is scanned the depth is the nesting depth of the
\* brackets outside strings, and the extracted text is the whole object.
C3_StringContentKeepsDepth ==
    ObjAligned =>
        /\ (pc = "scan" /\ i - startIdx <= Len(input.obj))
               => scan.depth = TagDepth(input.obj, i - startIdx, openChar, closeChar)
        /\ pc = "done" => extracted = Str(Chars(input.obj))

C3_Witness ==
    /\ ObjAligned
    /\ pc = "done"
    /\ HasStringBrackets(input.obj)
    /\ extracted = Str(Chars(input.obj))

\* C4: a text returned by extractBalancedJson starts at startIdx with the
\* opening bracket, ends with the closing bracket, and ends at the first
\* index where the string-aware depth is zero again; nothing after that
\* index is part of it.
C4_FirstBalancedSpan ==
    (pc = "done" /\ ~extracted.isNull) =>
        LET t == extracted.text
            last == startIdx + Len(t) - 1
        IN  /\ Len(t) >= 2
            /\ last < Len(cleaned)
            /\ t = Substring(cleaned, startIdx, last + 1)
            /\ t[1] = openChar
            /\ t[Len(t)] = closeChar
            /\ RefDepth(cleaned, startIdx, last, openChar, closeChar) = 0
            /\ \A j \in startIdx..(last - 1) :
                   RefDepth(cleaned, startIdx, j, openChar, closeChar) > 0

C4_Witness ==
    /\ pc = "done"
    /\ ~extracted.isNull
    /\ input.post \in FragmentSuffixes
    /\ startIdx + Len(extracted.text) < Len(cleaned)
    /\ \E j \in (startIdx + Len(extracted.text))..(Len(cleaned) - 1) :
           cleaned[j + 1] = openChar

\* C5: extraction never throws: for every input text, the empty text, a
\* text of fence markers only, and a text that ends in a backslash or inside
\* an open string included, every index the scan reads lies inside the
\* text, every step brings the return statement closer, and what is
\* returned is a value (a text from cleanJsonResponse).
ScanMeasure ==
    CASE pc = "start" -> Len(Text(input)) + 2
      [] pc = "scan" -> Len(cleaned) - i + 1
      [] OTHER -> 0

ScanInRange ==
    /\ pc \in {"start", "scan", "done"}
    /\ ScanMeasure >= 0
    /\ pc = "scan" => (0 <= startIdx /\ startIdx <= i /\ i <= Len(cleaned))
    /\ pc = "done" => ~result.isNull

C5_ExtractionCompletes ==
    /\ []ScanInRange
    /\ [][ScanMeasure' < ScanMeasure]_vars

C5_Witness ==
    /\ pc = "done"
    /\ startIdx >= 0
    /\ extracted.isNull
    /\ cleaned # <<>>
    /\ cleaned[Len(cleaned)] = "\\"
    /\ scan.inString
    /\ scan.escapeNext

(***************************************************************************)
(* Reference definitions for the scorer claims, written over the whole     *)
(* list of change records.                                                 *)
(***************************************************************************)
CriticalKeywords == {KwConfig, KwPackageJson, KwDockerfile, KwEnv, KwMigration, KwSchema}

\* two characters that differ at most in case: one is the single lower-case
\* form of the other
SameIgnoringCase(a, b) ==
    \/ a = b
    \/ LowerOf(a) = <<b>>
    \/ LowerOf(b) = <<a>>

\* the path contains one of the keywords, case-insensitively
HasCriticalKeyword(file) ==
    \E kw \in CriticalKeywords :
        \E n \in 0..(Len(file) - Len(kw)) :
            \A j \in 1..Len(kw) : SameIgnoringCase(file[n + j], kw[j])

RECURSIVE SumOver(_, _)
SumOver(F(_), list) ==
    IF list = <<>> THEN 0 ELSE F(Head(list)) + SumOver(F, Tail(list))

LineChanges(d) == d.insertions + d.deletions
CriticalCount(d) == IF HasCriticalKeyword(d.file) THEN 1 ELSE 0
FactorsOf(d) ==
    2 * CriticalCount(d)
    + (IF LineChanges(d) > 100 THEN 1 ELSE 0)
    + (IF Includes(d.changes, NewFileMarker) THEN 1 ELSE 0)
    + (IF Includes(d.changes, DeletedFileMarker) THEN 2 ELSE 0)

Clamp(x, lo, hi) == IF x < lo THEN lo ELSE IF x > hi THEN hi ELSE x

Assessed == spc = "done" /\ ~impact.isNull

(***************************************************************************)
(* Claims about the scorer.                                                *)
(***************************************************************************)
\* C6: for every non-empty set of change records with nonnegative counts,
\* however large, complexityScore is an integer between 0 and 10.
C6_ScoreInRange ==
    Assessed => impact.complexityScore \in 0..10

C6_Witness ==
    /\ Assessed
    /\ SumOver(LineChanges, diffs.list) >= 100000
    /\ impact.complexityScore = 10

\* C7: riskLevel is High if complexityScore >= 7 or criticalFiles > 0,
\* otherwise Medium if complexityScore >= 4 or filesTouched > 5, otherwise
\* Low.
C7_RiskLevelRule ==
    Assessed =>
        LET high == impact.complexityScore >= 7 \/ SumOver(CriticalCount, diffs.list) > 0
            medium == impact.complexityScore >= 4 \/ Len(diffs.list) > 5
        IN  /\ impact.riskLevel \in {"Low", "Medium", "High"}
            /\ impact.riskLevel = "High" <=> high
            /\ impact.riskLevel = "Medium" <=> (~high /\ medium)
            /\ impact.riskLevel = "Low" <=> (~high /\ ~medium)

C7_Witness ==
    /\ Assessed
    /\ impact.riskLevel = "Medium"
    /\ impact.complexityScore < 4
    /\ impact.filesTouched = 6

\* C8: when every change record has a critical path, riskLevel is High
\* whatever the line counts are, all zero included.
C8_AllCriticalIsHigh ==
    (Assessed /\ \A n \in 1..Len(diffs.list) : HasCriticalKeyword(diffs.list[n].file))
        => impact.riskLevel = "High"

C8_Witness ==
    /\ Assessed
    /\ Len(diffs.list) = 3
    /\ \A n \in 1..3 : HasCriticalKeyword(diffs.list[n].file)
    /\ \E n \in 1..3 : diffs.list[n].file # ToLowerCase(diffs.list[n].file)
    /\ SumOver(LineChanges, diffs.list) = 0
    /\ impact.complexityScore < 7
    /\ impact.riskLevel = "High"

\* C9: complexityScore is clamp(floor(totalChanges/50 + filesTouched/5 +
\* complexityFactors), 0, 10), the factors being 2 per critical record, 1 per
\* record of more than 100 changed lines, 1 per new-file marker and 2 per
\* deleted-file marker, added up over the records.
C9_ScoreFormula ==
    Assessed =>
        LET totalChanges == SumOver(LineChanges, diffs.list)
            filesTouched == Len(diffs.list)
            complexityFactors == SumOver(FactorsOf, diffs.list)
        IN  /\ impact.filesTouched = filesTouched
            /\ impact.complexityScore =
                   Clamp((totalChanges + 10 * filesTouched + 50 * complexityFactors) \div 50,
                         0, 10)

C9_Witness ==
    /\ Assessed
    /\ impact.complexityScore \in 1..9
    /\ \E n \in 1..Len(diffs.list) :
           /\ LineChanges(diffs.list[n]) = 100
           /\ Includes(diffs.list[n].changes, NewFileMarker)
           /\ Includes(diffs.list[n].changes, DeletedFileMarker)

\* C10: given zero change records the scorer returns the absent result: it
\* does not fail and it builds no assessment of zero values.
C10_EmptyIsAbsent ==
    (spc = "done" /\ ~diffs.threw /\ diffs.list = <<>>) => impact = NoImpact

C10_Witness ==
    /\ spc = "done"
    /\ ~diffs.threw
    /\ diffs.list = <<>>
    /\ impact.isNull

\* C11: the output of the scorer does not depend on the order of the change
\* records: every reordering of the list gives the same riskLevel,
\* filesTouched, complexityScore and details.
Reordered(list, p) == [n \in 1..Len(list) |-> list[p[n]]]

SwapAt(list, j) ==
    [n \in 1..Len(list) |-> IF n = j THEN list[j + 1] ELSE IF n = j + 1 THEN list[j] ELSE list[n]]

Reorderings(list) ==
    {SwapAt(list, j) : j \in 1..(Len(list) - 1)}
    \cup {[n \in 1..Len(list) |-> list[Len(list) + 1 - n]]}
    \cup (IF Len(list) <= MaxDiffs
          THEN {Reordered(list, p) : p \in Permutations(1..Len(list))}
          ELSE {})

C11_OrderIndependent ==
    Assessed => \A other \in Reorderings(diffs.list) : ImpactOf(other) = impact

C11_Witness ==
    /\ Assessed
    /\ Len(diffs.list) = 3
    /\ impact.complexityScore < 10
    /\ \A a, b \in 1..3 : a # b => diffs.list[a] # diffs.list[b]
    /\ \E n \in 1..3 : LineChanges(diffs.list[n]) > 100
    /\ \A other \in Reorderings(diffs.list) : ImpactOf(other) = impact

(***************************************************************************)
(* generateDeveloperReport: what the report is measured against.  The      *)
(* definitions below read the commits of git.log directly.                 *)
(***************************************************************************)
Produced == rpc = "done" /\ ~log.threw /\ Len(log.all) > 0

AuthorsOf(all) == {all[n].author : n \in 1..Len(all)}
CommitsBy(author) == {n \in 1..Len(log.all) : log.all[n].author = author}

\* where the lines of a text that hold a non-blank character start, and the
\* line that starts there
LineEnd(text, a) ==
    CHOOSE b \in a..Len(text) :
        /\ \A j \in a..b : text[j] # "\n"
        /\ (b = Len(text) \/ text[b + 1] = "\n")
LineAt(text, a) == SubSeq(text, a, LineEnd(text, a))
LineStarts(text) ==
    {a \in 1..Len(text) :
        /\ text[a] # "\n"
        /\ (a = 1 \/ text[a - 1] = "\n")
        /\ \E j \in a..LineEnd(text, a) : text[j] \notin WS}

\* the paths one fetch lists, and how often it lists one of them
PathsListed(show) ==
    IF show.ok THEN {LineAt(show.text, a) : a \in LineStarts(show.text)} ELSE {}
Listings(show, path) ==
    IF show.ok
    THEN Cardinality({a \in LineStarts(show.text) : LineAt(show.text, a) = path})
    ELSE 0

\* distinct paths over the author's commits, as the scan of the commits saw them
DistinctPaths(author) == UNION {PathsListed(log.all[n].first) : n \in CommitsBy(author)}

\* C12: the report has exactly one entry per distinct author; its commits
\* value is the number of commits by that author and its filesChanged value
\* is the number of distinct paths over that author's commits.
C12_OneEntryPerAuthor ==
    Produced =>
        /\ \A author \in AuthorsOf(log.all) :
               Cardinality({n \in 1..Len(returned) : returned[n].author = author}) = 1
        /\ \A n \in 1..Len(returned) :
               /\ returned[n].author \in AuthorsOf(log.all)
               /\ returned[n].commits = Cardinality(CommitsBy(returned[n].author))
               /\ returned[n].filesChanged = Cardinality(DistinctPaths(returned[n].author))

\* A with two commits both touching src/x.ts, B with one touching src/y.ts
C12_Witness ==
    /\ Produced
    /\ log.all = <<Commit("A", Shown(<<Path1>>), Shown(<<Path1>>)),
                   Commit("A", Shown(<<Path1>>), Shown(<<Path1>>)),
                   Commit("B", Shown(<<Path2>>), Shown(<<Path2>>))>>
    /\ returned = <<[author |-> "A", commits |-> 2, filesChanged |-> 1,
                     hotspots |-> <<<<"x", ".", "t", "s">>>>],
                    [author |-> "B", commits |-> 1, filesChanged |-> 1,
                     hotspots |-> <<<<"y", ".", "t", "s">>>>]>>

\* the path matches the exclusion filter: it contains a pattern, whatever the
\* case of its letters
MatchesExclusion(path) ==
    \E n \in 1..Len(ExcludePatterns) :
        \E at \in 0..(Len(path) - Len(ExcludePatterns[n])) :
            \A j \in 1..Len(ExcludePatterns[n]) :
                SameIgnoringCase(path[at + j], ExcludePatterns[n][j])

\* the paths the hotspots of an author are chosen from, and how often the
\* author modified one of them
PathsModified(author) == UNION {PathsListed(log.all[n].second) : n \in CommitsBy(author)}
Candidates(author) == {path \in PathsModified(author) : ~MatchesExclusion(path)}

RECURSIVE FrequencyUpTo(_, _, _)
FrequencyUpTo(author, path, n) ==
    IF n = 0 THEN 0
    ELSE FrequencyUpTo(author, path, n - 1)
         + (IF log.all[n].author = author THEN Listings(log.all[n].second, path) ELSE 0)
Frequency(author, path) == FrequencyUpTo(author, path, Len(log.all))

\* name is what the report shows for path
StripsTo(path, name) ==
    \/ \E n \in 1..Len(DisplayPrefixes) : path = DisplayPrefixes[n] \o name
    \/ /\ path = name
       /\ \A n \in 1..Len(DisplayPrefixes) :
              \E j \in 1..Len(DisplayPrefixes[n]) :
                  j > Len(path) \/ path[j] # DisplayPrefixes[n][j]

\* C13: no hotspot entry of any author is derived from a path that matches
\* the exclusion filter, however often that path was changed.
C13_NoExcludedHotspot ==
    /\ \A n \in 1..Len(tops) : \A j \in 1..Len(tops[n]) : ~MatchesExclusion(tops[n][j].file)
    /\ \A n \in 1..Len(reports) :
           \A j \in 1..Len(reports[n].hotspots) :
               \/ reports[n].hotspots[j] = NoRelevantFilesText
               \/ \E path \in Candidates(reports[n].author) :
                      StripsTo(path, reports[n].hotspots[j])
    /\ \A n \in 1..Len(returned) : \E r \in 1..Len(reports) : returned[n] = reports[r]

\* an author changed package-lock.json and Dockerfile twice and src/x.ts once
C13_Witness ==
    /\ Produced
    /\ \E n \in 1..Len(returned) :
           /\ Frequency(returned[n].author, Path5) = 2
           /\ Frequency(returned[n].author, Path6) = 2
           /\ Frequency(returned[n].author, Path1) = 1
           /\ returned[n].hotspots = <<<<"x", ".", "t", "s">>>>

\* first position of the author in the commit sequence
FirstSeen(author) == CHOOSE n \in CommitsBy(author) : \A o \in CommitsBy(author) : n <= o

\* the commit sequence with every file-list fetch failing
AllFetchesFail(all) == [n \in 1..Len(all) |-> Commit(all[n].author, ShowFails, ShowFails)]

\* C14: the returned list is in non-increasing commit count, authors of equal
\* count in first-seen order, and the order is the same whatever the
\* file-list fetches returned.
C14_OrderedByCommits ==
    Produced =>
        /\ \A n \in 1..(Len(returned) - 1) :
               \/ returned[n].commits > returned[n + 1].commits
               \/ /\ returned[n].commits = returned[n + 1].commits
                  /\ FirstSeen(returned[n].author) < FirstSeen(returned[n + 1].author)
        /\ LET other == ReportOf(AllFetchesFail(log.all))
           IN  /\ Len(other) = Len(returned)
               /\ \A n \in 1..Len(returned) : other[n].author = returned[n].author

\* three authors of one commit each, and an author moved ahead of an earlier one
C14_Witness ==
    /\ Produced
    /\ \/ /\ Len(returned) = 3
          /\ \A n \in 1..3 : returned[n].commits = 1 /\ returned[n].author = log.all[n].author
          /\ log.all[1].author = "B" /\ log.all[2].author = "C"
       \/ /\ Len(returned) = 2
          /\ returned[1].commits = 2
          /\ returned[1].author # log.all[1].author

\* the commit sequence with every failing fetch answered by an empty file list
AsIfEmpty(all) ==
    [n \in 1..Len(all) |->
        Commit(all[n].author,
               IF all[n].first.ok THEN all[n].first ELSE Shown(<<>>),
               IF all[n].second.ok THEN all[n].second ELSE Shown(<<>>))]

SomeFetchFails == \E n \in 1..Len(log.all) : ~log.all[n].first.ok \/ ~log.all[n].second.ok

\* C15: a commit whose file-list fetch fails still counts toward its author's
\* commits, adds nothing to the file statistics, and the report is the one
\* produced had the failing fetch returned an empty file list.
C15_FetchFailureIsEmptyList ==
    (Produced /\ SomeFetchFails) =>
        /\ returned = ReportOf(AsIfEmpty(log.all))
        /\ Len(returned) = Cardinality(AuthorsOf(log.all))
        /\ \A n \in 1..Len(returned) :
               /\ returned[n].commits = Cardinality(CommitsBy(returned[n].author))
               /\ returned[n].filesChanged = Cardinality(DistinctPaths(returned[n].author))

\* both fetches of one commit of A fail, another commit of A lists src/x.ts
C15_Witness ==
    /\ Produced
    /\ \E f, g \in 1..Len(log.all) :
           /\ log.all[f] = Commit("A", ShowFails, ShowFails)
           /\ log.all[g] = Commit("A", Shown(<<Path1>>), Shown(<<Path1>>))
    /\ \E n \in 1..Len(returned) :
           /\ returned[n].author = "A"
           /\ returned[n].commits = 2
           /\ returned[n].filesChanged = 1
           /\ returned[n].hotspots = <<<<"x", ".", "t", "s">>>>

TopFiles(top) == {top[j].file : j \in 1..Len(top)}

\* the hotspots pushed for the n-th author of authorStats; the final sort
\* may have moved the entry inside reports
HotspotsPushed(n) ==
    reports[CHOOSE r \in 1..Len(reports) : reports[r].author = authorStats[n].author].hotspots

\* C16: the hotspot list of every author is made of the non-excluded paths
\* in non-increasing modification frequency, cut to the first 3: no path left
\* out has a strictly higher frequency than a path in the list.
C16_TopThreeByFrequency ==
    /\ Len(tops) = Len(reports)
    /\ \A n \in 1..Len(tops) :
           LET author == authorStats[n].author
               top == tops[n]
           IN  /\ Len(top) = Min(3, Cardinality(Candidates(author)))
               /\ Cardinality(TopFiles(top)) = Len(top)
               /\ \A j \in 1..Len(top) :
                      /\ top[j].file \in Candidates(author)
                      /\ top[j].count = Frequency(author, top[j].file)
                      /\ \A path \in Candidates(author) \ TopFiles(top) :
                             Frequency(author, path) <= top[j].count
               /\ \A j \in 1..(Len(top) - 1) : top[j].count >= top[j + 1].count
               /\ Len(top) > 0 =>
                      /\ Len(HotspotsPushed(n)) = Len(top)
                      /\ \A j \in 1..Len(top) : StripsTo(top[j].file, HotspotsPushed(n)[j])

\* A changed w.ts once and three other paths twice: w.ts, listed first, is left out
C16_Witness ==
    /\ Produced
    /\ \E n \in 1..Len(returned) :
           /\ returned[n].author = "A"
           /\ Candidates("A") = {Path1, Path2, Path3, Path4}
           /\ Frequency("A", Path4) = 1
           /\ \A path \in {Path1, Path2, Path3} : Frequency("A", path) = 2
           /\ returned[n].hotspots =
                  <<<<"x", ".", "t", "s">>, <<"y", ".", "t", "s">>, <<"z", ".", "t", "s">>>>

\* C17: a hotspot list has 1 to 3 entries; it is the single sentinel entry
\* exactly when no path of the author passes the exclusion filter, and
\* otherwise it holds the display names of such paths.
C17_SentinelWhenNothingRelevant ==
    /\ \A n \in 1..Len(returned) : \E r \in 1..Len(reports) : returned[n] = reports[r]
    /\ \A n \in 1..Len(reports) :
           LET author == reports[n].author
               hotspots == reports[n].hotspots
           IN  /\ Len(hotspots) \in 1..3
               /\ Candidates(author) = {} => hotspots = <<NoRelevantFilesText>>
               /\ Candidates(author) # {} =>
                      \A j \in 1..Len(hotspots) :
                          /\ hotspots[j] # NoRelevantFilesText
                          /\ \E path \in Candidates(author) : StripsTo(path, hotspots[j])

\* one author whose fetches all failed, one with excluded paths only, and
\* one with a relevant path
C17_Witness ==
    /\ Produced
    /\ Len(returned) = 3
    /\ \E a, b, c \in 1..3 :
           /\ PathsModified(returned[a].author) = {}
           /\ returned[a].hotspots = <<NoRelevantFilesText>>
           /\ PathsModified(returned[b].author) # {}
           /\ Candidates(returned[b].author) = {}
           /\ returned[b].hotspots = <<NoRelevantFilesText>>
           /\ Candidates(returned[c].author) # {}
           /\ Len(returned[c].hotspots) = 1
           /\ returned[c].hotspots # <<NoRelevantFilesText>>

(***************************************************************************)
(* Response normalizer: what the normalized values are measured against.   *)
(***************************************************************************)
CommitTypes ==
    {"feat", "fix", "docs", "style", "refactor", "perf", "test", "build", "ci", "chore", "revert"}

SuggestionNormalized == shape = "commit-suggestion" /\ npc = "done"

IsCommitType(type) == type.t = "string" /\ type.v \in CommitTypes

\* C18: after normalization the type of a commit suggestion is a member of
\* the fixed set of commit types: a type outside the set, or an absent one,
\* has become "chore", a type inside the set is as it was.
C18_TypeInFixedSet ==
    SuggestionNormalized =>
        /\ IsCommitType(suggestion.type)
        /\ IsCommitType(given.type) => suggestion.type = given.type
        /\ ~IsCommitType(given.type) => suggestion.type = [t |-> "string", v |-> "chore"]
        /\ validated.returned => validated.value.type = suggestion.type

\* an absent type and a type outside the set have become "chore"
C18_Witness ==
    /\ SuggestionNormalized
    /\ validated.returned
    /\ given.type.t = "undefined" \/ (given.type.t = "string" /\ given.type.v = "feature")
    /\ validated.value.type.v = "chore"

\* C19: a description longer than 50 is cut and ends with "..." so that its
\* length is exactly 50; one of length at most 50 is unchanged; every
\* normalized description has length at most 50.
C19_DescriptionWithinLimit ==
    (SuggestionNormalized /\ validated.returned) =>
        LET before == given.description.v
            after == validated.value.description.v
        IN  /\ Len(after) <= 50
            /\ Len(before) <= 50 => after = before
            /\ Len(before) > 50 =>
                   /\ Len(after) = 50
                   /\ \A j \in 1..47 : after[j] = before[j]
                   /\ \A j \in 48..50 : after[j] = "."

\* a description of 51 characters came back with 50
C19_Witness ==
    /\ SuggestionNormalized
    /\ validated.returned
    /\ Len(given.description.v) = 51
    /\ Len(validated.value.description.v) = 50
    /\ validated.value.description.v[50] = "."

SuiteNormalized == shape = "test-suite" /\ npc = "done"

\* the parsed value is an object whose testCases is absent, not a sequence or empty
TestCasesUnusable ==
    /\ response.kind = "value"
    /\ response.value.t = "object"
    /\ response.value.testCases # "array" \/ response.value.length = 0

\* what the caller of generateTestSuiteForFile gets in the empty-result case
EmptyResultOutcome == NullSuite

\* C20: a parsed value whose testCases is absent, not a sequence or empty
\* ends normalization with the 'empty result' outcome, and the outcome of a
\* malformed JSON text is distinct from it.
C20_EmptyResultDistinct ==
    SuiteNormalized =>
        /\ TestCasesUnusable => testSuite = EmptyResultOutcome /\ logged = LoggedEmpty
        /\ response.kind = "malformed" => testSuite # EmptyResultOutcome

\* C21: normalizing a commit suggestion leaves the object that was passed
\* unchanged: after the call it has the type and the description it had
\* before, the normalized value being a separate result.
C21_ArgumentUnchanged ==
    SuggestionNormalized =>
        /\ suggestion.type = given.type
        /\ suggestion.description = given.description

(***************************************************************************)
(* A single linear pass over the commits: one fetch per commit, feeding    *)
(* the commit count, the distinct files and the frequencies of its author. *)
(***************************************************************************)
SinglePassBody(stats, commit) ==
    LET known == IF AuthorPos(stats, commit.author) = 0
                 THEN Append(stats, [author |-> commit.author, commits |-> 0,
                                     files |-> <<>>, frequency |-> <<>>])
                 ELSE stats
        at == AuthorPos(known, commit.author)
        files == FetchedFiles(commit.first)
    IN  [known EXCEPT ![at] = [author |-> known[at].author,
                               commits |-> known[at].commits + 1,
                               files |-> SetAddAll(known[at].files, files),
                               frequency |-> CountFiles(known[at].frequency, files)]]

RECURSIVE SinglePass(_, _)
SinglePass(stats, all) ==
    IF all = <<>> THEN stats ELSE SinglePass(SinglePassBody(stats, Head(all)), Tail(all))

SinglePassReport(all) ==
    LET stats == SinglePass(<<>>, all)
        Relevant(entry) == ~IsExcluded(entry.file)
    IN  SortDesc([n \in 1..Len(stats) |->
                     [author |-> stats[n].author,
                      commits |-> stats[n].commits,
                      filesChanged |-> Len(stats[n].files),
                      hotspots |-> Hotspots(SliceThree(SortDesc(
                                       SelectSeq(stats[n].frequency, Relevant), CountKey)))]],
                 CommitsKey)

\* C22: for every commit sequence and every pattern of fetch outcomes the
\* report equals the report of a single linear pass that accumulates commit
\* counts, distinct files and frequencies from one fetch per commit.
C22_SameAsSinglePass == Produced => returned = SinglePassReport(log.all)

(***************************************************************************)
(* The details string, written out from its description.                   *)
(***************************************************************************)
RECURSIVE DigitCount(_)
DigitCount(n) == IF n < 10 THEN 1 ELSE 1 + DigitCount(n \div 10)

RECURSIVE TenTo(_)
TenTo(e) == IF e = 0 THEN 1 ELSE 10 * TenTo(e - 1)

\* the decimal digits of n, most significant first
Decimal(n) ==
    [j \in 1..DigitCount(n) |->
        <<"0", "1", "2", "3", "4", "5", "6", "7", "8", "9">>[
            ((n \div TenTo(DigitCount(n) - j)) % 10) + 1]]

TotalPhrase ==
    <<" ", "t", "o", "t", "a", "l", " ", "l", "i", "n", "e", " ", "c", "h", "a", "n",
    "g", "e", "s">>
CriticalPhrase ==
    <<" ", "c", "r", "i", "t", "i", "c", "a", "l", " ", "f", "i", "l", "e", "s", " ",
    "a", "f", "f", "e", "c", "t", "e", "d">>
LargePhrase ==
    <<"L", "a", "r", "g", "e", " ", "c", "h", "a", "n", "g", "e", "s", "e", "t">>
ManyPhrase ==
    <<"M", "a", "n", "y", " ", "f", "i", "l", "e", "s", " ", "t", "o", "u", "c", "h",
    "e", "d">>
FallbackPhrase ==
    <<"S", "t", "a", "n", "d", "a", "r", "d", " ", "c", "o", "d", "e", " ", "c", "h",
    "a", "n", "g", "e", "s">>

\* the items of a list written one after the other, ", " between two of them
RECURSIVE Listed(_)
Listed(items) ==
    IF Len(items) = 0 THEN <<>>
    ELSE IF Len(items) = 1 THEN items[1]
    ELSE Listed(SubSeq(items, 1, Len(items) - 1)) \o <<",", " ">> \o items[Len(items)]

TotalOf(list) == SumOver(LineChanges, list)
CriticalOf(list) == SumOver(CriticalCount, list)

\* C23: the details string is the ", "-joined list, in this order, of
\* '<totalChanges> total line changes' (always), '<criticalFiles> critical
\* files affected' iff criticalFiles > 0, 'Large changeset' iff
\* totalChanges > 200, 'Many files touched' iff filesTouched > 10.
C23_DetailsContent ==
    Assessed =>
        impact.details =
            Listed(<<Decimal(TotalOf(diffs.list)) \o TotalPhrase>>
                   \o (IF CriticalOf(diffs.list) > 0
                       THEN <<Decimal(CriticalOf(diffs.list)) \o CriticalPhrase>> ELSE <<>>)
                   \o (IF TotalOf(diffs.list) > 200 THEN <<LargePhrase>> ELSE <<>>)
                   \o (IF Len(diffs.list) > 10 THEN <<ManyPhrase>> ELSE <<>>))

\* all four items at once: 2 critical files, 241 lines, 11 files
C23_Witness ==
    /\ Assessed
    /\ CriticalOf(diffs.list) = 2
    /\ TotalOf(diffs.list) = 241
    /\ Len(diffs.list) = 11
    /\ impact.details =
           <<"2", "4", "1">> \o TotalPhrase \o <<",", " ", "2">> \o CriticalPhrase
           \o <<",", " ">> \o LargePhrase \o <<",", " ">> \o ManyPhrase

\* C28: the details string begins with '<totalChanges> total line changes'
\* and is never 'Standard code changes', also when totalChanges is 0.
C28_FallbackUnreachable ==
    Assessed =>
        /\ impact.details # FallbackPhrase
        /\ LET head == Decimal(TotalOf(diffs.list)) \o TotalPhrase
           IN  /\ Len(impact.details) >= Len(head)
               /\ SubSeq(impact.details, 1, Len(head)) = head

\* an assessment of records without any changed line
C28_Witness ==
    /\ Assessed
    /\ TotalOf(diffs.list) = 0
    /\ CriticalOf(diffs.list) = 0
    /\ impact.details = <<"0">> \o TotalPhrase

\* the order Low < Medium < High
RiskRank(level) == IF level = "Low" THEN 1 ELSE IF level = "Medium" THEN 2 ELSE 3

\* C29: adding one more change record to a non-empty change set never lowers
\* complexityScore and never lowers riskLevel in the order Low < Medium < High.
C29_Monotone ==
    Assessed =>
        \A d \in DiffSamples :
            LET more == ImpactOf(Append(diffs.list, d))
            IN  /\ ~more.isNull
                /\ more.complexityScore >= impact.complexityScore
                /\ RiskRank(more.riskLevel) >= RiskRank(impact.riskLevel)

\* one more record raises a score below 10 and lifts the level from Low to High
C29_Witness ==
    /\ Assessed
    /\ impact.riskLevel = "Low"
    /\ \E d \in DiffSamples :
           LET more == ImpactOf(Append(diffs.list, d))
           IN  /\ more.complexityScore > impact.complexityScore
               /\ more.complexityScore < 10
               /\ more.riskLevel = "High"

NonSentinel(hotspots) == {j \in 1..Len(hotspots) : hotspots[j] # NoRelevantFilesText}

\* C30: in every report the file statistics of an author are consistent:
\* every path counted for the hotspots of the author is a member of the
\* author's distinct-files set, so filesChanged is at least the number of
\* hotspots other than the sentinel, also when a fetch fails in one of the
\* two scans and succeeds in the other.
C30_HotspotsAmongFilesChanged ==
    /\ \A n \in 1..Len(tops) :
           \A j \in 1..Len(tops[n]) : InSeq(tops[n][j].file, authorStats[n].files)
    /\ \A n \in 1..Len(returned) :
           returned[n].filesChanged >= Cardinality(NonSentinel(returned[n].hotspots))

(***************************************************************************)
(* Further claims about the balanced scan.                                 *)
(***************************************************************************)
\* the scan is about to process a character
Scanning == pc = "scan" /\ i < Len(cleaned)

\* C26: a backslash that is not itself escaped makes the scan skip exactly
\* the next character: that character changes neither the inside-string flag
\* nor the depth and does not set the escape flag again, and the escape flag
\* is clear after it; a quote that is not skipped toggles the string flag.
C26_EscapeSkipsOneCharacter ==
    [][Scanning =>
          /\ scan.escapeNext =>
                 /\ scan'.inString = scan.inString
                 /\ scan'.depth = scan.depth
                 /\ ~scan'.escapeNext
                 /\ pc' = "scan"
                 /\ i' = i + 1
          /\ (~scan.escapeNext /\ cleaned[i + 1] = "\\") =>
                 /\ scan'.escapeNext
                 /\ scan'.inString = scan.inString
                 /\ scan'.depth = scan.depth
                 /\ i' = i + 1
          /\ (~scan.escapeNext /\ cleaned[i + 1] = "\"") =>
                 /\ scan'.inString = ~scan.inString
                 /\ ~scan'.escapeNext]_vars

\* the scan has just processed the closing quote of the string "\\" (two
\* backslashes) and has left the string
C26_Witness ==
    /\ ObjAligned
    /\ Chars(input.obj) = <<"{", "\"", "a", "\"", ":", "\"", "\\", "\\", "\"", "}">>
    /\ pc = "scan"
    /\ i = startIdx + 9
    /\ ~scan.inString
    /\ ~scan.escapeNext
    /\ scan.depth = 1

\* C27: started at the expected opening bracket, the depth is at least 1
\* after every processed character until the function returns; it is never
\* negative and it is 0 only at the character on which the function returns.
C27_DepthAtLeastOne ==
    /\ scan.depth >= 0
    /\ (pc = "scan" /\ i > startIdx) => scan.depth >= 1
    /\ (pc = "scan" /\ i = startIdx) => cleaned[startIdx + 1] = openChar
    /\ (pc = "done" /\ startIdx >= 0) =>
           /\ extracted.isNull => scan.depth >= 1
           /\ ~extracted.isNull =>
                  /\ scan.depth = 0
                  /\ cleaned[i + 1] = closeChar
                  /\ extracted.text = Substring(cleaned, startIdx, i + 1)

\* the scan went down to depth 2 and returned at depth 0
C27_Witness ==
    /\ ObjAligned
    /\ pc = "done"
    /\ ~extracted.isNull
    /\ scan.depth = 0
    /\ \E n \in 1..Len(input.obj) : TagDepth(input.obj, n, openChar, closeChar) = 2

(***************************************************************************)
(* Claims about the command line.                                          *)
(***************************************************************************)
\* C24: in every run of the main action with the dry-run option set, whatever
\* the other options and the state of the repository, git.commit is never
\* invoked.
C24_DryRunNeverCommits == options.dryRun => "commit" \notin gitCalls

\* a dry run with --commit and --push staged the changes, generated the
\* message and ended without a commit
C24_Witness ==
    /\ options.dryRun
    /\ options.push
    /\ options.commit
    /\ cpc = "exited"
    /\ ended = "dry run"
    /\ "stageAllChanges" \in gitCalls
    /\ "commit" \notin gitCalls

\* C25: whenever ConfigService.hasApiKey() is true, also when the key exists
\* only in the file written by saveApiKey, the AIService constructor finds
\* the key and does not end the process with 'No OpenAI API key found'.
C25_SavedKeyIsFound ==
    HasApiKey(keyEnv, fynnConfig) => ended # "exit: No OpenAI API key found"

=============================================================================
